---- MODULE Spec2Model ----
(***************************************************************************)
(* Filesystem-backed note persistence of the desktop application           *)
(* (src/desktop/preload.js): path derivation, name sanitisation, the       *)
(* store index (notePaths in store.json), the per-note reconcile step of   *)
(* savePersistentState and the rehydration done by loadPersistentState.    *)
(*                                                                         *)
(* A JavaScript string is a sequence of one-character strings, so that     *)
(* startsWith, trim, the title regex and the " (i)" suffix are computed.   *)
(* A path is a sequence of such names (its segments); an absolute path     *)
(* lists every segment from the filesystem root.                           *)
(***************************************************************************)
EXTENDS Integers, Sequences, FiniteSets, TLC

\* ------------------------------------------------------------------------
\* Program constants
\* ------------------------------------------------------------------------
NOTES_ROOT_NAME == <<"C", "u", "r", "N", "o", "t", "e", "s">>
META_DIR_NAME == <<".", "c", "u", "r", "n", "o", "t", "e">>
META_FILE_NAME == <<"s", "t", "o", "r", "e", ".", "j", "s", "o", "n">>
AssetsName == <<"a", "s", "s", "e", "t", "s">>
HtmlExt == <<".", "h", "t", "m", "l">>
NewNoteName == <<"N", "e", "w", " ", "N", "o", "t", "e">>
FolderFallback == <<"F", "o", "l", "d", "e", "r">>
NotebookFallback == <<"N", "o", "t", "e", "b", "o", "o", "k">>
DotDot == <<".", ".">>

\* ensureUniqueDirPath tries the suffixes 2 .. MaxSuffix - 1
MaxSuffix == 500
\* noteTitleFromContent keeps at most this many characters of the first line
MaxTitleChars == 64
\* sanitize-filename truncates its result to this many bytes
MaxFileNameLen == 255
\* headings are one to six hashes
MaxHeadingHashes == 6

\* the documents directory answered by the main process ('curnote:getPath')
DocumentsPath == << <<"d">> >>

\* JavaScript's null / undefined where an identifier is expected; a missing
\* string (undefined, null or '') is the empty sequence
Null == "null"

\* ------------------------------------------------------------------------
\* Strings
\* ------------------------------------------------------------------------
Whitespace == {" ", "\n", "\r", "\t"}
LineBreaks == {"\n", "\r"}
IllegalChars == {"/", "?", "<", ">", "\\", ":", "*", "|", "\""}
ControlChars == {"\n", "\r", "\t"}

StartsWith(s, p) ==
  /\ Len(p) <= Len(s)
  /\ SubSeq(s, 1, Len(p)) = p

RECURSIVE TrimStart(_)
TrimStart(s) ==
  IF s # <<>> /\ Head(s) \in Whitespace THEN TrimStart(Tail(s)) ELSE s

RECURSIVE TrimEnd(_)
TrimEnd(s) ==
  IF s # <<>> /\ s[Len(s)] \in Whitespace
  THEN TrimEnd(SubSeq(s, 1, Len(s) - 1))
  ELSE s

Trim(s) == TrimEnd(TrimStart(s))

RECURSIVE TakeLine(_, _)
\* [^\n\r]{1,k}: the longest run of at most k characters without a line break
TakeLine(s, k) ==
  IF s = <<>> \/ k = 0 \/ Head(s) \in LineBreaks
  THEN <<>>
  ELSE <<Head(s)>> \o TakeLine(Tail(s), k - 1)

RECURSIVE CountHashes(_)
CountHashes(s) ==
  IF s # <<>> /\ Head(s) = "#" THEN 1 + CountHashes(Tail(s)) ELSE 0

\* title.replace(/^\s*#{1,6}\s+/, '')
StripHeading(t) ==
  LET u == TrimStart(t)
      h == CountHashes(u)
      k == IF h > MaxHeadingHashes THEN MaxHeadingHashes ELSE h
      rest == SubSeq(u, k + 1, Len(u))
  IN IF k >= 1 /\ rest # <<>> /\ Head(rest) \in Whitespace
     THEN TrimStart(rest)
     ELSE t

RECURSIVE Digits(_)
\* decimal digits of a natural number, as `${i}` prints them
Digits(i) ==
  LET d == <<"0", "1", "2", "3", "4", "5", "6", "7", "8", "9">>
  IN IF i < 10 THEN <<d[i + 1]>> ELSE Digits(i \div 10) \o <<d[(i % 10) + 1]>>

\* `${base} (${i})`
Suffixed(base, i) == base \o <<" ", "(">> \o Digits(i) \o <<")">>

RECURSIVE DropTrailingDotsSpaces(_)
DropTrailingDotsSpaces(s) ==
  IF s # <<>> /\ s[Len(s)] \in {".", " "}
  THEN DropTrailingDotsSpaces(SubSeq(s, 1, Len(s) - 1))
  ELSE s

\* the sanitize-filename package with an empty replacement: illegal and
\* control characters are removed, a name of dots only is removed, trailing
\* dots and spaces are removed, and the result is truncated
sanitizeFilename(s) ==
  LET a == SelectSeq(s, LAMBDA c : c \notin IllegalChars \cup ControlChars)
      b == IF a # <<>> /\ \A i \in 1..Len(a) : a[i] = "." THEN <<>> ELSE a
      c == DropTrailingDotsSpaces(b)
  IN IF Len(c) > MaxFileNameLen THEN SubSeq(c, 1, MaxFileNameLen) ELSE c

safeName(name, fallback) ==
  LET cleaned == sanitizeFilename(Trim(name))
  IN IF cleaned = <<>> THEN fallback ELSE cleaned

noteTitleFromContent(content) ==
  LET line == TakeLine(TrimStart(content), MaxTitleChars)
      t0 == IF Trim(line) = <<>> THEN NewNoteName ELSE Trim(line)
      t1 == Trim(StripHeading(t0))
  IN IF t1 = <<>> THEN NewNoteName ELSE t1

\* ------------------------------------------------------------------------
\* Paths
\* ------------------------------------------------------------------------
RECURSIVE Normalize(_)
\* path.join's normalisation of ".." segments of an absolute path
Normalize(p) ==
  IF p = <<>> THEN <<>>
  ELSE LET init == Normalize(SubSeq(p, 1, Len(p) - 1))
           last == p[Len(p)]
       IN IF last = DotDot
          THEN (IF init = <<>> THEN <<>> ELSE SubSeq(init, 1, Len(init) - 1))
          ELSE Append(init, last)

PathJoin(base, rel) == Normalize(base \o rel)

Dirname(p) == SubSeq(p, 1, Len(p) - 1)
Basename(p) == p[Len(p)]

RECURSIVE CommonLen(_, _)
CommonLen(p, q) ==
  IF p # <<>> /\ q # <<>> /\ Head(p) = Head(q)
  THEN 1 + CommonLen(Tail(p), Tail(q))
  ELSE 0

\* path.relative(from, to) for absolute, normalised paths
PathRelative(from, to) ==
  LET k == CommonLen(from, to)
  IN [i \in 1..(Len(from) - k) |-> DotDot] \o SubSeq(to, k + 1, Len(to))

RECURSIVE PathString(_)
\* the string of an absolute path: "/seg1/seg2/..."
PathString(p) ==
  IF p = <<>> THEN <<>>
  ELSE PathString(SubSeq(p, 1, Len(p) - 1)) \o <<"/">> \o p[Len(p)]

\* p is q or lies below q
IsUnder(p, q) == Len(q) <= Len(p) /\ SubSeq(p, 1, Len(q)) = q

getNotesRoot == Append(DocumentsPath, NOTES_ROOT_NAME)
MetaDir == Append(getNotesRoot, META_DIR_NAME)
MetaPath == Append(MetaDir, META_FILE_NAME)

\* ------------------------------------------------------------------------
\* The filesystem: fs.dirs is the set of directories, fs.files maps each
\* regular file to its text.  store.json is kept parsed in fs.meta (with
\* present = FALSE when the file does not exist).
\* ------------------------------------------------------------------------
NoMeta == [present |-> FALSE]

MetaExists(fs) == fs.meta # NoMeta

existsSync(fs, p) ==
  \/ p \in fs.dirs
  \/ p \in DOMAIN fs.files
  \/ (p = MetaPath /\ MetaExists(fs))

IsFile(fs, p) == p \in DOMAIN fs.files \/ (p = MetaPath /\ MetaExists(fs))

Prefixes(p) == {SubSeq(p, 1, k) : k \in 1..Len(p)}

\* fs.mkdirSync(p, {recursive: true}) throws when a prefix of p is a file
MkdirThrows(fs, p) == \E q \in Prefixes(p) : IsFile(fs, q)

ensureDir(fs, p) == [fs EXCEPT !.dirs = @ \cup Prefixes(p)]

\* fs.readdirSync(p)
Entries(fs, p) ==
  {q \in fs.dirs \cup DOMAIN fs.files : Len(q) = Len(p) + 1 /\ IsUnder(q, p)}
    \cup (IF p = MetaDir /\ MetaExists(fs) THEN {MetaPath} ELSE {})

\* fs.rmSync(p, {recursive: true, force: true})
rmSync(fs, p) ==
  [dirs |-> {d \in fs.dirs : ~IsUnder(d, p)},
   files |-> [f \in {g \in DOMAIN fs.files : ~IsUnder(g, p)} |-> fs.files[f]],
   meta |-> IF IsUnder(MetaPath, p) THEN NoMeta ELSE fs.meta]

\* fs.renameSync(old, new) throws EINVAL when new lies inside old, ENOTEMPTY
\* when new is a directory that is not empty, ENOTDIR/EISDIR when the kinds
\* differ, ENOENT when the parent of new is missing
RenameThrows(fs, old, new) ==
  \/ ~existsSync(fs, old)
  \/ (old # new /\ IsUnder(new, old))
  \/ (new \in fs.dirs /\ Entries(fs, new) # {})
  \/ (new \in fs.dirs /\ IsFile(fs, old))
  \/ (IsFile(fs, new) /\ old \in fs.dirs)
  \/ Dirname(new) \notin fs.dirs

Rebase(p, old, new) ==
  IF IsUnder(p, old) THEN new \o SubSeq(p, Len(old) + 1, Len(p)) ELSE p

renameSync(fs, old, new) ==
  LET moved == {Rebase(f, old, new) : f \in DOMAIN fs.files}
  IN [dirs |-> {Rebase(d, old, new) : d \in fs.dirs},
      files |-> [f \in moved |-> fs.files[Rebase(f, new, old)]],
      meta |-> IF IsUnder(MetaPath, old) THEN NoMeta ELSE fs.meta]

\* fs.writeFileSync(p, text) throws when p is a directory or its parent is
\* missing
WriteThrows(fs, p) == p \in fs.dirs \/ Dirname(p) \notin fs.dirs

writeFileSync(fs, p, text) ==
  [fs EXCEPT !.files =
     [f \in DOMAIN fs.files \cup {p} |-> IF f = p THEN text ELSE fs.files[f]]]

\* ------------------------------------------------------------------------
\* Helpers of preload.js
\* ------------------------------------------------------------------------
safeRmDir(fs, root, dirRel) ==
  IF dirRel = <<>> THEN fs
  ELSE LET full == PathJoin(root, dirRel)
       IN IF ~StartsWith(PathString(full), PathString(root)) THEN fs
          ELSE IF existsSync(fs, full) THEN rmSync(fs, full)
          ELSE fs

RECURSIVE FirstFreeCandidate(_, _, _)
FirstFreeCandidate(fs, dirPath, i) ==
  IF i >= MaxSuffix THEN dirPath
  ELSE LET candidate ==
             Append(Dirname(dirPath), Suffixed(Basename(dirPath), i))
       IN IF ~existsSync(fs, candidate) THEN candidate
          ELSE FirstFreeCandidate(fs, dirPath, i + 1)

\* variant of ensureUniqueDirPath whose numbering starts one too high
ensureUniqueDirPath_SkipsTwo(fs, dirPath) ==
  IF ~existsSync(fs, dirPath) THEN dirPath
  ELSE FirstFreeCandidate(fs, dirPath, 3)

ensureUniqueDirPath(fs, dirPath) ==
  IF ~existsSync(fs, dirPath) THEN dirPath
  ELSE FirstFreeCandidate(fs, dirPath, 2)

RECURSIVE cleanupEmptyDirs(_, _, _)
cleanupEmptyDirs(fs, cur, stopDir) ==
  IF cur = <<>>
     \/ ~StartsWith(PathString(cur), PathString(stopDir))
     \/ cur = stopDir
  THEN fs
  ELSE IF ~existsSync(fs, cur) THEN cleanupEmptyDirs(fs, Dirname(cur), stopDir)
  ELSE IF IsFile(fs, cur) THEN fs              \* readdirSync throws, caught
  ELSE IF Entries(fs, cur) # {} THEN fs
  ELSE cleanupEmptyDirs([fs EXCEPT !.dirs = @ \ {cur}], Dirname(cur), stopDir)

RECURSIVE FolderChain(_, _, _)
\* the while loop of buildFolderPath: names from the root-most folder reached
\* down to the folder the walk started at
FolderChain(folders, cur, seen) ==
  IF cur # Null /\ cur \in DOMAIN folders /\ cur \notin seen
  THEN Append(FolderChain(folders, folders[cur].parentFolderId,
                          seen \cup {cur}),
              safeName(folders[cur].name, FolderFallback))
  ELSE <<>>

buildFolderPath(folders, notebooks, folderId) ==
  LET parts == FolderChain(folders, folderId, {})
      notebookId == IF folderId # Null /\ folderId \in DOMAIN folders
                    THEN folders[folderId].notebookId
                    ELSE Null
      notebookName ==
        IF notebookId # Null /\ notebookId \in DOMAIN notebooks
        THEN safeName(notebooks[notebookId].name, NotebookFallback)
        ELSE safeName(NotebookFallback, NotebookFallback)
  IN <<notebookName>> \o parts

\* lines 154-163: the note directory and its assets/ are created below the
\* folder directory.  The result record carries threw = TRUE when a mkdir
\* threw; fs then holds what had been created before the exception.
CreateNoteDir(fs, root, folderParts, noteDirName) ==
  LET folderDir == PathJoin(root, folderParts)
      noteDir == Append(folderDir, noteDirName)
      assetsDir == Append(noteDir, AssetsName)
  IN [fs |-> IF MkdirThrows(fs, folderDir) THEN fs
             ELSE IF MkdirThrows(fs, noteDir) THEN ensureDir(fs, folderDir)
             ELSE IF MkdirThrows(fs, assetsDir) THEN ensureDir(fs, noteDir)
             ELSE ensureDir(fs, assetsDir),
      threw |-> MkdirThrows(fs, assetsDir),
      noteDir |-> noteDir,
      htmlFile |-> Append(noteDir, noteDirName \o HtmlExt),
      folderDir |-> folderDir,
      noteDirName |-> noteDirName,
      folderParts |-> folderParts]

getOrCreateNoteDir(fs, root, folders, notebooks, note) ==
  CreateNoteDir(fs, root,
                buildFolderPath(folders, notebooks, note.folderId),
                safeName(noteTitleFromContent(note.content), NewNoteName))

\* showdown's makeHtml and turndown's inverse, as an invertible wrapping of
\* the markdown text
makeHtml(markdown) == <<"<">> \o markdown \o <<">">>

turndown(raw) ==
  IF Len(raw) >= 2 /\ raw[1] = "<" /\ raw[Len(raw)] = ">"
  THEN SubSeq(raw, 2, Len(raw) - 1)
  ELSE raw

\* ------------------------------------------------------------------------
\* savePersistentState
\* ------------------------------------------------------------------------
\* obj?.[id]?.[field], with a missing value read as the empty string
PathField(notePaths, id, field) ==
  IF id \in DOMAIN notePaths /\ field \in DOMAIN notePaths[id]
  THEN notePaths[id][field]
  ELSE <<>>

Without(m, id) == [k \in DOMAIN m \ {id} |-> m[k]]
With(m, id, v) == [k \in DOMAIN m \cup {id} |-> IF k = id THEN v ELSE m[k]]

FilesUnder(fs, dir) ==
  {<<f, fs.files[f]>> : f \in {g \in DOMAIN fs.files : IsUnder(g, dir)}}

\* The renames a save performs are logged in st.moves.  A log entry is
\* opened when the rename is done and completed with the disk as the
\* callback leaves it.
LoggedMoves(st, mv, fsEnd) ==
  st.moves \o
    [i \in 1..Len(mv) |->
       [id |-> mv[i].id, from |-> mv[i].from, desired |-> mv[i].desired,
        to |-> mv[i].to, destExisted |-> mv[i].destExisted,
        taken |-> mv[i].taken,
        destBefore |-> mv[i].destBefore, srcBefore |-> mv[i].srcBefore,
        destKept |-> mv[i].desired \in fsEnd.dirs,
        destAfter |-> FilesUnder(fsEnd, mv[i].desired),
        srcAfter |-> FilesUnder(fsEnd, mv[i].to)]]

\* an exception leaves the forEach callback: the forEach and the rest of the
\* try block are abandoned with the disk as it is
Thrown(st, note, fsEnd, mv) ==
  [st EXCEPT !.fs = fsEnd, !.active = @ \cup {note.id},
             !.moves = LoggedMoves(st, mv, fsEnd), !.threw = TRUE]

\* lines 360-370: the content file is written and the entry recorded
WriteNote(st, note, fsDirs, finalNoteDir, finalHtmlFile, mv) ==
  IF WriteThrows(fsDirs, finalHtmlFile) THEN Thrown(st, note, fsDirs, mv)
  ELSE [fs |-> writeFileSync(fsDirs, finalHtmlFile, makeHtml(note.content)),
        next |-> With(st.next, note.id,
                      [dirRel |-> PathRelative(getNotesRoot, finalNoteDir),
                       htmlRel |-> PathRelative(getNotesRoot, finalHtmlFile)]),
        active |-> st.active \cup {note.id},
        moves |-> LoggedMoves(st, mv,
                    writeFileSync(fsDirs, finalHtmlFile,
                                  makeHtml(note.content))),
        threw |-> FALSE]

\* lines 357-359: the final directory and its assets/ are ensured
EnsureNoteDirs(st, note, fsMoved, finalNoteDir, finalHtmlFile, mv) ==
  IF MkdirThrows(fsMoved, finalNoteDir) THEN Thrown(st, note, fsMoved, mv)
  ELSE IF MkdirThrows(fsMoved, Append(finalNoteDir, AssetsName))
  THEN Thrown(st, note, ensureDir(fsMoved, finalNoteDir), mv)
  ELSE WriteNote(st, note,
                 ensureDir(fsMoved, Append(finalNoteDir, AssetsName)),
                 finalNoteDir, finalHtmlFile, mv)

\* lines 349-355: the recorded directory is renamed to the unique target
MoveNoteDir(st, note, g, prevDir, uniqueTarget) ==
  IF RenameThrows(g.fs, prevDir, uniqueTarget)
  THEN Thrown(st, note, g.fs, <<>>)
  ELSE EnsureNoteDirs(
         st, note,
         cleanupEmptyDirs(renameSync(g.fs, prevDir, uniqueTarget),
                          Dirname(prevDir), getNotesRoot),
         uniqueTarget,
         Append(uniqueTarget, Basename(uniqueTarget) \o HtmlExt),
         <<[id |-> note.id, from |-> prevDir, desired |-> g.noteDir,
            to |-> uniqueTarget,
            destExisted |-> existsSync(st.fs, g.noteDir),
            taken |-> {d \in g.fs.dirs \cup DOMAIN g.fs.files :
                         Dirname(d) = Dirname(g.noteDir)},
            destBefore |-> FilesUnder(st.fs, g.noteDir),
            srcBefore |-> FilesUnder(st.fs, prevDir)]>>)

\* lines 339-356: the drift test, after getOrCreateNoteDir has run
PlaceNote(st, note, prevDirRel, g) ==
  IF g.threw THEN Thrown(st, note, g.fs, <<>>)
  ELSE IF /\ prevDirRel # <<>>
          /\ existsSync(g.fs, PathJoin(getNotesRoot, prevDirRel))
          /\ PathJoin(getNotesRoot, prevDirRel) # g.noteDir
  THEN MoveNoteDir(st, note, g, PathJoin(getNotesRoot, prevDirRel),
                   ensureUniqueDirPath(g.fs, g.noteDir))
  ELSE EnsureNoteDirs(st, note, g.fs, g.noteDir, g.htmlFile, <<>>)

\* One call of the notesArray.forEach callback.  st.threw records that an
\* exception left the callback.
PersistNote(st, note, data, prevNotePaths) ==
  IF st.threw THEN st
  ELSE IF note.deleted
  THEN [st EXCEPT !.fs = safeRmDir(st.fs, getNotesRoot,
                                   PathField(prevNotePaths, note.id, "dirRel")),
                  !.next = Without(st.next, note.id)]
  ELSE PlaceNote(st, note, PathField(prevNotePaths, note.id, "dirRel"),
                 getOrCreateNoteDir(st.fs, getNotesRoot, data.folders,
                                    data.notebooks, note))

RECURSIVE PersistNotes(_, _, _, _)
\* notesArray.forEach, in array order
PersistNotes(st, notes, data, prevNotePaths) ==
  IF notes = <<>> THEN st
  ELSE PersistNotes(PersistNote(st, Head(notes), data, prevNotePaths),
                    Tail(notes), data, prevNotePaths)

RECURSIVE RemoveVanished(_, _, _)
\* Object.keys(prevNotePaths).forEach: the notes that disappeared entirely
RemoveVanished(fs, ids, prevNotePaths) ==
  IF ids = {} THEN fs
  ELSE LET id == CHOOSE x \in ids : TRUE
       IN RemoveVanished(
            safeRmDir(fs, getNotesRoot, PathField(prevNotePaths, id, "dirRel")),
            ids \ {id}, prevNotePaths)

\* writeJsonFile(metaPath, data): its own try/catch swallows a failure
writeJsonFile(fs, json) ==
  IF MkdirThrows(fs, MetaDir) \/ MetaPath \in fs.dirs THEN fs
  ELSE [ensureDir(fs, MetaDir) EXCEPT !.meta = json]

\* note without its content, as kept in store.json
StripContent(note) == [note EXCEPT !.hasContent = FALSE, !.content = <<>>]

\* lines 373-388: the vanished notes, store.json and the final cleanup
FinishSave(st1, data, prevNotePaths) ==
  IF st1.threw THEN [fs |-> st1.fs, moves |-> st1.moves, threw |-> TRUE]
  ELSE [fs |-> cleanupEmptyDirs(
                 writeJsonFile(
                   RemoveVanished(
                     st1.fs,
                     {id \in DOMAIN prevNotePaths :
                        id \notin st1.active /\ id \notin DOMAIN st1.next},
                     prevNotePaths),
                   [present |-> TRUE,
                    notes |-> [i \in 1..Len(data.notes) |->
                                 StripContent(data.notes[i])],
                    folders |-> data.folders,
                    notebooks |-> data.notebooks,
                    noteTags |-> <<>>,
                    notePaths |-> st1.next]),
                 MetaDir, getNotesRoot),
        moves |-> st1.moves,
        threw |-> FALSE]

\* lines 287-371: the previous Store Index is read and every note persisted
SaveNotes(fs1, data, prevNotePaths) ==
  FinishSave(PersistNotes([fs |-> fs1, next |-> prevNotePaths, active |-> {},
                           moves |-> <<>>, threw |-> FALSE],
                          data.notes, data, prevNotePaths),
             data, prevNotePaths)

savePersistentState(fs0, data) ==
  IF MkdirThrows(fs0, getNotesRoot)
  THEN [fs |-> fs0, moves |-> <<>>, threw |-> TRUE]
  ELSE SaveNotes(ensureDir(fs0, getNotesRoot), data,
                 IF fs0.meta.present THEN fs0.meta.notePaths ELSE <<>>)

\* ------------------------------------------------------------------------
\* loadPersistentState
\* ------------------------------------------------------------------------
NoSnapshot == [present |-> FALSE]

HydrateNote(fs, note, notePaths) ==
  LET htmlRel == PathField(notePaths, note.id, "htmlRel")
      mdRel == PathField(notePaths, note.id, "mdRel")
      fileRel == IF htmlRel # <<>> THEN htmlRel ELSE mdRel
      filePath == PathJoin(getNotesRoot, fileRel)
  IN IF fileRel # <<>> /\ filePath \in DOMAIN fs.files
     THEN [note EXCEPT !.hasContent = TRUE,
                       !.content = IF htmlRel # <<>>
                                   THEN turndown(fs.files[filePath])
                                   ELSE fs.files[filePath]]
     ELSE note

\* lines 228-273: the body of the try block.  readJsonFile gives null for a
\* store.json that is missing or cannot be parsed, and a falsy value for
\* one that holds null; notesArray.map throws when notes is not an array
\* of [id, note] pairs (the "shape" field of a damaged store).
HydratedSnapshot(fs) ==
  IF ~fs.meta.present THEN [threw |-> FALSE, value |-> NoSnapshot]
  ELSE IF "shape" \in DOMAIN fs.meta
  THEN [threw |-> TRUE, value |-> NoSnapshot]
  ELSE [threw |-> FALSE,
        value |-> [fs.meta EXCEPT
                     !.notes = [i \in 1..Len(fs.meta.notes) |->
                                  HydrateNote(fs, fs.meta.notes[i],
                                              fs.meta.notePaths)]]]

\* the try block without its catch: the exception reaches the caller
loadPersistentState_NoCatch(fs) ==
  IF HydratedSnapshot(fs).threw THEN [present |-> FALSE, threw |-> TRUE]
  ELSE HydratedSnapshot(fs).value

loadPersistentState(fs) ==
  IF HydratedSnapshot(fs).threw THEN NoSnapshot
  ELSE HydratedSnapshot(fs).value

\* new Map(pairs): each key with the value of its last pair
NewMap(pairs) ==
  [k \in {pairs[i][1] : i \in 1..Len(pairs)} |->
     pairs[CHOOSE i \in 1..Len(pairs) :
             pairs[i][1] = k /\ \A j \in (i + 1)..Len(pairs) : pairs[j][1] # k][2]]

\* preload.js lines 394-405: the array revisions.json holds, [] otherwise
loadAllRevisions(file) ==
  IF file.present /\ file.isArray THEN file.entries ELSE <<>>

DEFAULT_NOTEBOOK_ID == "default-notebook"
DEFAULT_FOLDER_ID == "default-folder"

\* part_006 lines 12-56, on the maps loadState has just built (none of them
\* is null): a default notebook when there is no notebook, a default folder
\* when there is no folder, the default folder for every note without a
\* folder, and the markdown system tag for every note
migrateNotebooksAndFolders(d) ==
  [notebooks |-> IF DOMAIN d.notebooks = {}
                 THEN DEFAULT_NOTEBOOK_ID
                        :> [name |-> <<"N", "o", "t", "e", "b", "o", "o", "k", "s">>]
                 ELSE d.notebooks,
   folders |-> IF DOMAIN d.folders = {}
               THEN DEFAULT_FOLDER_ID
                      :> [name |-> <<"I", "n", "b", "o", "x">>,
                          notebookId |-> DEFAULT_NOTEBOOK_ID,
                          parentFolderId |-> Null]
               ELSE d.folders,
   notes |-> [i \in 1..Len(d.notes) |->
                [k \in DOMAIN d.notes[i] \cup {"folderId", "systemTags"} |->
                   CASE k = "folderId" ->
                          IF "folderId" \notin DOMAIN d.notes[i]
                               \/ d.notes[i].folderId = Null
                          THEN DEFAULT_FOLDER_ID ELSE d.notes[i].folderId
                     [] k = "systemTags" ->
                          IF "systemTags" \notin DOMAIN d.notes[i]
                          THEN <<"markdown">>
                          ELSE IF \E t \in 1..Len(d.notes[i].systemTags) :
                                    d.notes[i].systemTags[t] = "markdown"
                          THEN d.notes[i].systemTags
                          ELSE Append(d.notes[i].systemTags, "markdown")
                     [] OTHER -> d.notes[i][k]]]]

\* part_006 lines 286-346 for accountName = null: new Map(rawState.noteTags
\* .map(...)) throws when the store holds no noteTags (a store.json that
\* only an asset call has written), and the catch returns the empty state
StateFrom(rawState, revisionsArray) ==
  IF ~rawState.present \/ "noteTags" \notin DOMAIN rawState
  THEN [empty |-> TRUE]
  ELSE migrateNotebooksAndFolders(
         [notes |-> rawState.notes, folders |-> rawState.folders,
          notebooks |-> rawState.notebooks])
         @@ [empty |-> FALSE,
             noteRevisions |-> [id \in DOMAIN NewMap(revisionsArray) |->
                                  NewMap(NewMap(revisionsArray)[id])]]

loadStateFromSQLite(fs, file) ==
  StateFrom(loadPersistentState(fs), loadAllRevisions(file))

\* ------------------------------------------------------------------------
\* saveNoteAssetFromDataUrl
\* ------------------------------------------------------------------------
PastedPrefix == <<"p", "a", "s", "t", "e", "d", "-">>
PngExt == <<".", "p", "n", "g">>
JpgExt == <<".", "j", "p", "g">>

EmptyMeta == [present |-> TRUE, notes |-> <<>>, folders |-> <<>>,
              notebooks |-> <<>>, notePaths |-> <<>>]

\* lines 440-451: the dirRel of a directory just resolved is recorded
RecordNoteDir(fs, rawMeta, noteId, noteDir) ==
  LET prior == IF noteId \in DOMAIN rawMeta.notePaths
               THEN rawMeta.notePaths[noteId]
               ELSE <<>>
      entry == [k \in DOMAIN prior \cup {"dirRel"} |->
                  IF k = "dirRel" THEN PathRelative(getNotesRoot, noteDir)
                  ELSE prior[k]]
  IN writeJsonFile(fs, [rawMeta EXCEPT
                          !.notePaths = With(@, noteId, entry)])

CreatedNoteDir(g, rawMeta, noteId) ==
  IF g.threw THEN [fs |-> g.fs, threw |-> TRUE, noteDir |-> <<>>]
  ELSE [fs |-> RecordNoteDir(g.fs, rawMeta, noteId, g.noteDir),
        threw |-> FALSE, noteDir |-> g.noteDir]

\* lines 431-437: the recorded directory when there is one, a new one
\* otherwise
ResolveRecorded(fs1, rawMeta, noteId, note, folders, notebooks) ==
  IF PathField(rawMeta.notePaths, noteId, "dirRel") # <<>>
  THEN [fs |-> fs1, threw |-> FALSE,
        noteDir |-> PathJoin(getNotesRoot,
                             PathField(rawMeta.notePaths, noteId, "dirRel"))]
  ELSE CreatedNoteDir(
         getOrCreateNoteDir(fs1, getNotesRoot, folders, notebooks, note),
         rawMeta, noteId)

\* The note directory the asset functions resolve, and the disk after the
\* directory has been created and recorded (lines 428-455).
ResolveNoteDir(fs0, noteId, note, folders, notebooks) ==
  IF MkdirThrows(fs0, getNotesRoot)
  THEN [fs |-> fs0, threw |-> TRUE, noteDir |-> <<>>]
  ELSE ResolveRecorded(ensureDir(fs0, getNotesRoot),
                       IF fs0.meta.present THEN fs0.meta ELSE EmptyMeta,
                       noteId, note, folders, notebooks)

\* lines 457-493.  decoded = FALSE: nativeImage could not decode the data
\* URL (null is returned).  The result is the disk and the relative path
\* returned (<<>> for null).
WriteAsset(r, isJpeg, decoded, now, buffer) ==
  LET assetsDir == Append(r.noteDir, AssetsName)
      fileName == PastedPrefix \o Digits(now)
                    \o (IF isJpeg THEN JpgExt ELSE PngExt)
      filePath == Append(assetsDir, fileName)
  IN IF r.threw THEN [fs |-> r.fs, rel |-> <<>>]
     ELSE IF MkdirThrows(r.fs, assetsDir) THEN [fs |-> r.fs, rel |-> <<>>]
     ELSE IF ~decoded THEN [fs |-> ensureDir(r.fs, assetsDir), rel |-> <<>>]
     ELSE IF WriteThrows(ensureDir(r.fs, assetsDir), filePath)
     THEN [fs |-> ensureDir(r.fs, assetsDir), rel |-> <<>>]
     ELSE [fs |-> writeFileSync(ensureDir(r.fs, assetsDir), filePath, buffer),
           rel |-> <<AssetsName, fileName>>]

saveNoteAssetFromDataUrl(fs0, noteId, note, folders, notebooks, isJpeg, decoded, now, buffer) ==
  WriteAsset(ResolveNoteDir(fs0, noteId, note, folders, notebooks),
             isJpeg, decoded, now, buffer)

\* ------------------------------------------------------------------------
\* saveNoteAssetFromUrl and resolveNoteAssetFileUrl
\* ------------------------------------------------------------------------
\* String.prototype.toLowerCase on the letters file extensions are made of
ToLower(str) ==
  [i \in 1..Len(str) |->
     CASE str[i] = "P" -> "p" [] str[i] = "N" -> "n" [] str[i] = "G" -> "g"
       [] str[i] = "J" -> "j" [] str[i] = "E" -> "e" [] str[i] = "I" -> "i"
       [] str[i] = "F" -> "f" [] str[i] = "S" -> "s" [] str[i] = "V" -> "v"
       [] str[i] = "W" -> "w" [] str[i] = "B" -> "b" [] str[i] = "T" -> "t"
       [] str[i] = "X" -> "x" [] str[i] = "Z" -> "z" [] str[i] = "O" -> "o"
       [] str[i] = "A" -> "a" [] OTHER -> str[i]]

\* lines 539-542: path.extname without its dot (what follows the last "."
\* of the base name, when that dot is not its first character), lower-cased
extFromPath(localPath) ==
  LET name == Basename(localPath)
      dots == {i \in 2..Len(name) : name[i] = "."}
  IN IF dots = {} THEN <<>>
     ELSE ToLower(SubSeq(name,
                         (CHOOSE i \in dots : \A j \in dots : j <= i) + 1,
                         Len(name)))

normalizeExt(ext) ==
  IF ext = <<"j", "p", "e", "g">> THEN <<"j", "p", "g">> ELSE ext

isSupportedImageExt(ext) ==
  ext \in {<<"p", "n", "g">>, <<"j", "p", "g">>, <<"j", "p", "e", "g">>,
           <<"g", "i", "f">>, <<"w", "e", "b", "p">>, <<"s", "v", "g">>}

RECURSIVE TakeUntil(_, _)
\* s.split(c)[0]
TakeUntil(str, c) ==
  IF str = <<>> \/ Head(str) = c THEN <<>>
  ELSE <<Head(str)>> \o TakeUntil(Tail(str), c)

\* lines 568-582: the extension chosen from the content-type header
ExtOfContentType(contentType) ==
  LET mimeType == Trim(TakeUntil(contentType, ";"))
      image == <<"i", "m", "a", "g", "e", "/">>
  IN CASE mimeType = image \o <<"p", "n", "g">> -> <<"p", "n", "g">>
       [] mimeType = image \o <<"j", "p", "e", "g">> -> <<"j", "p", "g">>
       [] mimeType = image \o <<"g", "i", "f">> -> <<"g", "i", "f">>
       [] mimeType = image \o <<"w", "e", "b", "p">> -> <<"w", "e", "b", "p">>
       [] OTHER -> <<"p", "n", "g">>

\* lines 555-561 and 584-592: the asset file is written under the name made
\* of the clock value
WriteNamedAsset(fsDirs, assetsDir, now, ext, buffer) ==
  LET fileName == PastedPrefix \o Digits(now) \o <<".">> \o ext
  IN IF WriteThrows(fsDirs, Append(assetsDir, fileName))
     THEN [fs |-> fsDirs, rel |-> <<>>]
     ELSE [fs |-> writeFileSync(fsDirs, Append(assetsDir, fileName), buffer),
           rel |-> <<AssetsName, fileName>>]

\* lines 548-562: a local file URL or absolute path
CopyLocalAsset(fsDirs, assetsDir, localPath, now) ==
  IF ~isSupportedImageExt(extFromPath(localPath))
  THEN [fs |-> fsDirs, rel |-> <<>>]
  ELSE IF ~existsSync(fsDirs, localPath) THEN [fs |-> fsDirs, rel |-> <<>>]
  ELSE IF localPath \notin DOMAIN fsDirs.files     \* readFile throws
  THEN [fs |-> fsDirs, rel |-> <<>>]
  ELSE WriteNamedAsset(fsDirs, assetsDir, now,
                       normalizeExt(extFromPath(localPath)),
                       fsDirs.files[localPath])

\* lines 564-592: a remote URL; res.failed stands for fetch rejecting
FetchAsset(fsDirs, assetsDir, res, now) ==
  IF res.failed \/ ~res.ok THEN [fs |-> fsDirs, rel |-> <<>>]
  ELSE WriteNamedAsset(fsDirs, assetsDir, now,
                       ExtOfContentType(res.contentType), res.body)

\* lines 531-592, once the note directory is resolved
WriteUrlAsset(r, url, res, now) ==
  IF r.threw \/ MkdirThrows(r.fs, Append(r.noteDir, AssetsName))
  THEN [fs |-> r.fs, rel |-> <<>>]
  ELSE IF url.local
  THEN CopyLocalAsset(ensureDir(r.fs, Append(r.noteDir, AssetsName)),
                      Append(r.noteDir, AssetsName), url.path, now)
  ELSE FetchAsset(ensureDir(r.fs, Append(r.noteDir, AssetsName)),
                  Append(r.noteDir, AssetsName), res, now)

saveNoteAssetFromUrl(fs0, noteId, note, folders, notebooks, url, res, now) ==
  WriteUrlAsset(ResolveNoteDir(fs0, noteId, note, folders, notebooks),
                url, res, now)

\* lines 626-627: the absolute path behind the returned file URL (<<>> for
\* null)
ResolvedUrl(r, rel) ==
  [fs |-> r.fs, url |-> IF r.threw THEN <<>> ELSE PathJoin(r.noteDir, rel)]

\* resolveNoteAssetFileUrl does not create the root before it reads
\* store.json
resolveNoteAssetFileUrl(fs0, noteId, note, folders, notebooks, rel) ==
  ResolvedUrl(ResolveRecorded(fs0,
                              IF fs0.meta.present THEN fs0.meta ELSE EmptyMeta,
                              noteId, note, folders, notebooks),
              rel)

\* ------------------------------------------------------------------------
\* Bounds of the model
\* ------------------------------------------------------------------------
NoteIds == {"n1", "n2"}
FolderIds == {"f1", "f2", "f3"}
\* note texts: "a" and "# a" have the same title, "b" another one
Contents == {<<"a">>, <<"#", " ", "a">>, <<"b">>}
\* names the top-level folders f1 and f3 can take; f2 is a subfolder of f1
\* and is named like the note title "a"
FolderNames ==
  [f \in {"f1", "f3"} |->
     IF f = "f1" THEN {<<"F">>, <<"G">>} ELSE {<<"H">>, <<"K">>}]
\* user actions (dispatched store actions and pasted images) in one run
MaxEdits == 2
\* saves in a row without a user action in between (the debounce timer
\* fires once per burst of actions; two in a row is the idempotence case)
MaxSaveRun == 2
\* the clock values Date.now() can answer
MaxClock == 1
ImageBytes == <<"i">>

\* the files of the documents directory an image URL can name: a JPEG and
\* a text file
LocalFiles ==
  (Append(DocumentsPath, <<"p", ".", "J", "P", "E", "G">>) :> <<"u">>)
    @@ (Append(DocumentsPath, <<"p", ".", "t", "x", "t">>) :> <<"u">>)
\* the url argument: one of these files, a PNG that does not exist, a
\* remote URL
Urls ==
  {[local |-> TRUE, path |-> p] :
     p \in DOMAIN LocalFiles
          \cup {Append(DocumentsPath, <<"m", ".", "p", "n", "g">>)}}
    \cup {[local |-> FALSE, path |-> <<>>]}
\* what fetch gives for a remote URL: a rejection, an error status, a PNG,
\* a JPEG with a parameter in its content type
Responses ==
  {[failed |-> TRUE, ok |-> FALSE, contentType |-> <<>>, body |-> <<>>],
   [failed |-> FALSE, ok |-> FALSE, contentType |-> <<>>, body |-> <<>>],
   [failed |-> FALSE, ok |-> TRUE,
    contentType |-> <<"i", "m", "a", "g", "e", "/", "p", "n", "g">>,
    body |-> <<"r">>],
   [failed |-> FALSE, ok |-> TRUE,
    contentType |-> <<"i", "m", "a", "g", "e", "/", "j", "p", "e", "g",
                      ";", " ", "q">>,
    body |-> <<"r">>]}

\* ------------------------------------------------------------------------
\* State
\* ------------------------------------------------------------------------
VARIABLES
  fs,        \* the disk: directories, files and the parsed store.json
  data,      \* the snapshot the application holds (notes, folders, notebooks)
  loaded,    \* what loadPersistentState returned, when it was the last call
  lastOp,    \* "init", "app" (a store action), "paste", "save", "load" (a
             \* load that follows a save with no store action in between:
             \* "saveload")
  moves,     \* the renames performed by the last savePersistentState
  threw,     \* whether the last savePersistentState ended in its catch block
  edits,     \* number of user actions (store actions, pastes) so far
  saveRun,   \* number of saves since the last user action
  started,   \* the state loadState handed to the application
  timer,     \* the persistence middleware: its timer and the saves it made
  revisions, \* revisions.json
  idb,       \* the IndexedDB object stores of the browser build
  importer,  \* the import in progress
  walk,      \* a buildFolderPath call: its arguments and its loop
  assetCall, \* an asset save suspended at an await
  cascade    \* a DELETE_FOLDER action going through the data middleware

vars == <<fs, data, loaded, lastOp, moves, threw, edits, saveRun, started,
          timer, revisions, idb, importer, walk, assetCall, cascade>>

NoteIdsOf(notes) == {notes[i].id : i \in 1..Len(notes)}
NoteOf(notes, id) == notes[CHOOSE i \in 1..Len(notes) : notes[i].id = id]

InitFolders ==
  [f \in FolderIds |->
     CASE f = "f1" ->
            [name |-> <<"F">>, notebookId |-> "nb1", parentFolderId |-> Null]
       [] f = "f2" ->
            [name |-> <<"a">>, notebookId |-> "nb1", parentFolderId |-> "f1"]
       [] OTHER ->
            [name |-> <<"H">>, notebookId |-> "nb1", parentFolderId |-> Null]]

InitNotebooks == [nb \in {"nb1"} |-> [name |-> <<"N">>]]

NewNote(id, content, folderId) ==
  [id |-> id, content |-> content, hasContent |-> TRUE, deleted |-> FALSE,
   folderId |-> folderId]

\* The notes the store holds when the first save is due: none, one, two
\* with the same title in one folder, or two unrelated ones.
InitNotes ==
  {<<>>,
   <<NewNote("n1", <<"a">>, "f1")>>,
   <<NewNote("n1", <<"a">>, "f1"), NewNote("n2", <<"#", " ", "a">>, "f1")>>,
   <<NewNote("n1", <<"a">>, "f1"), NewNote("n2", <<"b">>, "f3")>>}

\* before start-up: nothing is loaded, no timer is pending, no revision is
\* stored and no import is running
InitRest ==
  /\ started = [empty |-> TRUE]
  /\ timer = [worker |-> FALSE]
  /\ revisions = [file |-> [present |-> FALSE], call |-> <<>>]
  /\ idb = [state |-> NoSnapshot, revisions |-> <<>>]
  /\ importer = [running |-> FALSE]
  /\ walk = [running |-> FALSE]
  /\ assetCall = [running |-> FALSE]
  /\ cascade = [running |-> FALSE]

\* nothing has been persisted yet: the documents directory is all there is
Init ==
  /\ fs = [dirs |-> Prefixes(DocumentsPath), files |-> <<>>, meta |-> NoMeta]
  /\ \E ns \in InitNotes :
       data = [notes |-> ns, folders |-> InitFolders,
               notebooks |-> InitNotebooks]
  /\ loaded = NoSnapshot
  /\ lastOp = "init"
  /\ moves = <<>>
  /\ threw = FALSE
  /\ edits = 0
  /\ saveRun = 0
  /\ InitRest

\* the store holds no note and nothing has been persisted
InitIdle ==
  /\ fs = [dirs |-> Prefixes(DocumentsPath), files |-> <<>>, meta |-> NoMeta]
  /\ data = [notes |-> <<>>, folders |-> InitFolders,
             notebooks |-> InitNotebooks]
  /\ loaded = NoSnapshot
  /\ lastOp = "init"
  /\ moves = <<>>
  /\ threw = FALSE
  /\ edits = 0
  /\ saveRun = 0
  /\ InitRest

\* the application session lasts until the snapshot is read again, which
\* happens at the next start-up
Running == lastOp \notin {"load", "saveload"}

\* a dispatched store action changes only the in-memory snapshot
AppStep ==
  /\ Running
  /\ edits < MaxEdits
  /\ edits' = edits + 1
  /\ lastOp' = "app"
  /\ loaded' = NoSnapshot
  /\ moves' = <<>>
  /\ threw' = FALSE
  /\ saveRun' = 0
  /\ UNCHANGED <<fs, started, timer, revisions, idb, importer,
                 walk, assetCall, cascade>>

\* CREATE_NOTE_WITH_ID: a new note is appended to the notes map
CreateNote ==
  \E id \in NoteIds \ NoteIdsOf(data.notes), c \in Contents,
     f \in FolderIds :
    /\ data' = [data EXCEPT !.notes = Append(@, NewNote(id, c, f))]
    /\ AppStep

\* EDIT_NOTE with a new content
EditNote ==
  \E i \in 1..Len(data.notes), c \in Contents :
    /\ c # data.notes[i].content
    /\ data' = [data EXCEPT !.notes[i].content = c]
    /\ AppStep

\* EDIT_NOTE with a new folder assignment
MoveNote ==
  \E i \in 1..Len(data.notes), f \in FolderIds :
    /\ f # data.notes[i].folderId
    /\ data' = [data EXCEPT !.notes[i].folderId = f]
    /\ AppStep

\* TRASH_NOTE
TrashNote ==
  \E i \in 1..Len(data.notes) :
    /\ ~data.notes[i].deleted
    /\ data' = [data EXCEPT !.notes[i].deleted = TRUE]
    /\ AppStep

\* RESTORE_NOTE
RestoreNote ==
  \E i \in 1..Len(data.notes) :
    /\ data.notes[i].deleted
    /\ data' = [data EXCEPT !.notes[i].deleted = FALSE]
    /\ AppStep

\* DELETE_NOTE_FOREVER: the note leaves the notes map
DeleteNoteForever ==
  \E i \in 1..Len(data.notes) :
    /\ data.notes[i].deleted
    /\ data' = [data EXCEPT !.notes =
                  SubSeq(@, 1, i - 1) \o SubSeq(@, i + 1, Len(@))]
    /\ AppStep

\* RENAME_FOLDER
RenameFolder ==
  \E f \in DOMAIN FolderNames :
    \E n \in FolderNames[f] :
      /\ n # data.folders[f].name
      /\ data' = [data EXCEPT !.folders[f].name = n]
      /\ AppStep

\* the debounced save: window.electron.savePersistentState(data)
Save ==
  LET r == savePersistentState(fs, data)
  IN /\ Running
     /\ saveRun < MaxSaveRun
     /\ saveRun' = saveRun + 1
     /\ fs' = r.fs
     /\ moves' = r.moves
     /\ threw' = r.threw
     /\ lastOp' = "save"
     /\ loaded' = NoSnapshot
     /\ UNCHANGED <<data, edits, started, timer, revisions, idb, importer,
                 walk, assetCall, cascade>>

\* window.electron.loadPersistentState(): called once, at start-up, before
\* any store action is dispatched; it reads what the session that ended left
\* on disk
Load ==
  /\ Running
  /\ lastOp # "app"
  /\ loaded' = loadPersistentState(fs)
  /\ lastOp' = IF lastOp = "save" THEN "saveload" ELSE "load"
  /\ started' = loadStateFromSQLite(fs, revisions.file)
  /\ UNCHANGED <<fs, data, moves, threw, edits, saveRun, timer, revisions,
                 idb, importer,
                 walk, assetCall, cascade>>

\* an image pasted into the editor of an open note
PasteImage ==
  \E i \in 1..Len(data.notes), t \in 1..MaxClock, jpeg \in BOOLEAN,
     decoded \in BOOLEAN :
    /\ Running
    /\ edits < MaxEdits
    /\ ~data.notes[i].deleted
    /\ edits' = edits + 1
    /\ fs' = saveNoteAssetFromDataUrl(fs, data.notes[i].id, data.notes[i],
                                      data.folders, data.notebooks, jpeg,
                                      decoded, t, ImageBytes).fs
    /\ lastOp' = "paste"
    /\ loaded' = NoSnapshot
    /\ moves' = <<>>
    /\ threw' = FALSE
    /\ saveRun' = 0
    /\ UNCHANGED <<data, started, timer, revisions, idb, importer,
                 walk, assetCall, cascade>>

Next ==
  \/ CreateNote
  \/ EditNote
  \/ MoveNote
  \/ TrashNote
  \/ RestoreNote
  \/ DeleteNoteForever
  \/ RenameFolder
  \/ Save
  \/ Load
  \/ PasteImage

Spec == Init /\ [][Next]_vars

\* an image URL dropped into the editor of an open note
SaveAssetFromUrl ==
  \E i \in 1..Len(data.notes), t \in 1..MaxClock, url \in Urls,
     res \in Responses :
    /\ Running
    /\ edits < MaxEdits
    /\ ~data.notes[i].deleted
    /\ url.local => res.failed
    /\ edits' = edits + 1
    /\ fs' = saveNoteAssetFromUrl(fs, data.notes[i].id, data.notes[i],
                                  data.folders, data.notebooks, url, res,
                                  t).fs
    /\ lastOp' = "url"
    /\ loaded' = NoSnapshot
    /\ moves' = <<>>
    /\ threw' = FALSE
    /\ saveRun' = 0
    /\ UNCHANGED <<data, started, timer, revisions, idb, importer,
                 walk, assetCall, cascade>>

\* the editor or a cell of the note list (the Trash list included) resolves
\* the image of a note
ResolveAsset ==
  \E i \in 1..Len(data.notes),
     rel \in {<<AssetsName, PastedPrefix \o <<"1">> \o PngExt>>} :
    /\ Running
    /\ edits < MaxEdits
    /\ edits' = edits + 1
    /\ fs' = resolveNoteAssetFileUrl(fs, data.notes[i].id, data.notes[i],
                                     data.folders, data.notebooks, rel).fs
    /\ lastOp' = "resolve"
    /\ loaded' = NoSnapshot
    /\ moves' = <<>>
    /\ threw' = FALSE
    /\ saveRun' = 0
    /\ UNCHANGED <<data, started, timer, revisions, idb, importer,
                 walk, assetCall, cascade>>

\* the documents directory holds an image when the application starts
InitAssets ==
  /\ fs = [dirs |-> Prefixes(DocumentsPath),
           files |-> LocalFiles,
           meta |-> NoMeta]
  /\ \E ns \in InitNotes :
       data = [notes |-> ns, folders |-> InitFolders,
               notebooks |-> InitNotebooks]
  /\ loaded = NoSnapshot
  /\ lastOp = "init"
  /\ moves = <<>>
  /\ threw = FALSE
  /\ edits = 0
  /\ saveRun = 0
  /\ InitRest

NextAssets ==
  \/ Next
  \/ SaveAssetFromUrl
  \/ ResolveAsset

SpecAssets == InitAssets /\ [][NextAssets]_vars

\* what can happen to the store between two sessions: store.json is
\* removed, truncated, overwritten with null, its notes replaced by a value
\* that is not an array of pairs, or the note directories are emptied
Damaged(d, kind) ==
  CASE kind = "missing" -> [d EXCEPT !.meta = NoMeta]
    [] kind = "notes" -> [d EXCEPT !.meta = @ @@ [shape |-> kind]]
    [] kind = "content" ->
         [d EXCEPT !.files =
            [f \in {g \in DOMAIN @ : ~IsUnder(g, getNotesRoot)} |-> @[f]]]
    [] OTHER -> [d EXCEPT !.meta = [present |-> FALSE, kind |-> kind]]

Damage ==
  \E kind \in {"missing", "unparsable", "null", "notes", "content"} :
    /\ Running
    /\ lastOp # "damaged"
    /\ existsSync(fs, MetaPath)
    /\ kind = "notes" => fs.meta.present /\ "shape" \notin DOMAIN fs.meta
    /\ fs' = Damaged(fs, kind)
    /\ lastOp' = "damaged"
    /\ loaded' = NoSnapshot
    /\ UNCHANGED <<data, moves, threw, edits, saveRun, started, timer,
                   revisions, idb, importer,
                 walk, assetCall, cascade>>

\* the snapshots of the sessions whose store is read back: those of
\* InitNotes, with any of their notes in the Trash
InitLoad ==
  /\ fs = [dirs |-> Prefixes(DocumentsPath), files |-> <<>>, meta |-> NoMeta]
  /\ \E ns \in InitNotes, trashed \in SUBSET NoteIds :
       data = [notes |-> [i \in 1..Len(ns) |->
                           [ns[i] EXCEPT !.deleted = ns[i].id \in trashed]],
               folders |-> InitFolders, notebooks |-> InitNotebooks]
  /\ loaded = NoSnapshot
  /\ lastOp = "init"
  /\ moves = <<>>
  /\ threw = FALSE
  /\ edits = 0
  /\ saveRun = 0
  /\ InitRest

NextLoad ==
  \/ Save
  \/ PasteImage
  \/ Damage
  \/ Load

SpecLoad == InitLoad /\ [][NextLoad]_vars

\* ------------------------------------------------------------------------
\* Revisions and the two backends
\* ------------------------------------------------------------------------
\* preload.js lines 406-418.  revisions.json is read (null when missing or
\* unparsable), turned into a Map, the entry of noteId is set and the
\* entries are written back in the order of the Map; new Map throws for a
\* value that is not an array and nothing is written.
saveNoteRevisions_Replace(file, noteId, revs) ==
  [present |-> TRUE, isArray |-> TRUE, entries |-> << <<noteId, revs>> >>]

saveNoteRevisions(file, noteId, revs) ==
  LET existing == IF file.present THEN file.entries ELSE <<>>
      map == NewMap(existing)
      firsts == {i \in 1..Len(existing) :
                   \A j \in 1..(i - 1) : existing[j][1] # existing[i][1]}
      Nth(n) == CHOOSE i \in firsts :
                  Cardinality({j \in firsts : j <= i}) = n
      kept == [n \in 1..Cardinality(firsts) |->
                 <<existing[Nth(n)][1],
                   IF existing[Nth(n)][1] = noteId THEN revs
                   ELSE map[existing[Nth(n)][1]]>>]
  IN IF file.present /\ ~file.isArray THEN file
     ELSE [present |-> TRUE, isArray |-> TRUE,
           entries |-> IF noteId \in DOMAIN map THEN kept
                       ELSE Append(kept, <<noteId, revs>>)]

\* part_006 lines 199-228: the stored revisions of the note are merged with
\* the new ones (a version already stored keeps its stored note) and sorted
\* by version
persistRevisionsIndexedDB(store, noteId, revs) ==
  LET saved == IF noteId \in DOMAIN store THEN store[noteId] ELSE <<>>
      merged == saved \o SelectSeq(revs,
                                   LAMBDA r : \A i \in 1..Len(saved) :
                                                saved[i][1] # r[1])
      firsts == {i \in 1..Len(merged) :
                   \A j \in 1..(i - 1) : merged[j][1] # merged[i][1]}
      Nth(n) == CHOOSE i \in firsts :
                  Cardinality({j \in firsts :
                                 merged[j][1] <= merged[i][1]}) = n
  IN With(store, noteId,
          [n \in 1..Cardinality(firsts) |-> merged[Nth(n)]])

\* part_006 lines 86-197 for accountName = null
loadStateFromIndexedDB(db) ==
  IF ~db.state.present THEN [empty |-> TRUE]
  ELSE migrateNotebooksAndFolders(
         [notes |-> db.state.notes, folders |-> db.state.folders,
          notebooks |-> db.state.notebooks])
         @@ [empty |-> FALSE,
             noteRevisions |-> [id \in DOMAIN db.revisions |->
                                  NewMap(db.revisions[id])]]

\* LOAD_REVISIONS with a non-empty list: persistRevisions on each backend
LoadRevisions ==
  \E id \in NoteIds,
     revs \in {<< <<1, "x">> >>, << <<2, "y">> >>, << <<1, "z">> >>,
               << <<2, "y">>, <<1, "x">> >>} :
    /\ Running
    /\ edits < MaxEdits
    /\ edits' = edits + 1
    /\ revisions' = [file |-> saveNoteRevisions(revisions.file, id, revs),
                     call |-> <<id, revs>>]
    /\ idb' = [idb EXCEPT
                 !.revisions = persistRevisionsIndexedDB(@, id, revs)]
    /\ fs' = IF MkdirThrows(fs, MetaDir) THEN fs ELSE ensureDir(fs, MetaDir)
    /\ lastOp' = "revisions"
    /\ loaded' = NoSnapshot
    /\ moves' = <<>>
    /\ threw' = FALSE
    /\ saveRun' = 0
    /\ UNCHANGED <<data, started, timer, importer,
                 walk, assetCall, cascade>>

\* the debounced saveState, as each backend performs it
SaveState ==
  /\ Running
  /\ saveRun < MaxSaveRun
  /\ saveRun' = saveRun + 1
  /\ fs' = savePersistentState(fs, data).fs
  /\ idb' = [idb EXCEPT
               !.state = data @@ [present |-> TRUE, noteTags |-> <<>>]]
  /\ lastOp' = "save"
  /\ loaded' = NoSnapshot
  /\ moves' = <<>>
  /\ threw' = FALSE
  /\ UNCHANGED <<data, edits, started, timer, revisions, importer,
                 walk, assetCall, cascade>>

\* revisions.json is removed, or cut short by a write that did not finish
DamageRevisions ==
  \E kind \in {"missing", "unparsable"} :
    /\ Running
    /\ revisions.file.present
    /\ revisions' = [revisions EXCEPT
                       !.file = [present |-> FALSE, kind |-> kind]]
    /\ lastOp' = "revdamage"
    /\ UNCHANGED <<fs, data, loaded, moves, threw, edits, saveRun, started,
                   timer, idb, importer,
                 walk, assetCall, cascade>>

NextBackends ==
  \/ CreateNote
  \/ EditNote
  \/ TrashNote
  \/ SaveState
  \/ LoadRevisions
  \/ DamageRevisions

SpecBackends == Init /\ [][NextBackends]_vars

\* ------------------------------------------------------------------------
\* SimplenoteImporter.importNotes (src/lib/utils/import/simplenote/index.ts)
\* ------------------------------------------------------------------------
MaxImportSize == 5000000

\* lodash endsWith
EndsWith(str, suffix) ==
  /\ Len(str) >= Len(suffix)
  /\ SubSeq(str, Len(str) - Len(suffix) + 1, Len(str)) = suffix

\* importNotes testing the name as given, not lower-cased
importNotes_CaseSensitive(filesArray) ==
  IF filesArray = <<>> THEN <<>>
  ELSE IF filesArray[1].size > MaxImportSize THEN <<>>
  ELSE IF EndsWith(filesArray[1].name, <<".", "j", "s", "o", "n">>)
  THEN <<[op |-> "processJsonFile", arg |-> filesArray[1]]>>
  ELSE IF EndsWith(filesArray[1].name, <<".", "z", "i", "p">>)
  THEN <<[op |-> "processZipFile", arg |-> filesArray[1]]>>
  ELSE <<>>

\* lines 19-44: what importNotes does with the files it is given, as the
\* sequence of its calls of processJsonFile, processZipFile and emit.  The
\* branch of the .zip files has no return: the error status follows the
\* call of processZipFile.
importNotes(filesArray) ==
  LET file == filesArray[1]
      fileName == ToLower(file.name)
      Status(message) == [op |-> "emit", arg |-> <<"status", "error", message>>]
  IN IF filesArray = <<>> THEN <<Status("No file to import.")>>
     ELSE IF file.size > MaxImportSize
     THEN <<Status("File should be less than 5 MB.")>>
     ELSE IF EndsWith(fileName, <<".", "j", "s", "o", "n">>)
     THEN <<[op |-> "processJsonFile", arg |-> file]>>
     ELSE IF EndsWith(fileName, <<".", "z", "i", "p">>)
     THEN <<[op |-> "processZipFile", arg |-> file],
            Status("File must be a .json or .zip file.")>>
     ELSE <<Status("File must be a .json or .zip file.")>>

\* the files a user can pick: names with either extension in either case,
\* with both, with none, and sizes around the limit
ImportFiles ==
  [name : {<<"a", ".", "j", "s", "o", "n">>, <<"A", ".", "J", "S", "O", "N">>,
           <<"a", ".", "z", "i", "p">>, <<"a", ".", "Z", "i", "P">>,
           <<"a", ".", "z", "i", "p", ".", "j", "s", "o", "n">>,
           <<"a", ".", "j", "s", "o", "n", ".", "z", "i", "p">>,
           <<"z", "i", "p">>, <<".", "z", "i", "p">>,
           <<"a", ".", "t", "x", "t">>, <<"a", ".", "z", "i", "p", "x">>},
   size : {0, MaxImportSize, MaxImportSize + 1}]

\* the user picks files in the import dialog
ImportNotes ==
  \E filesArray \in
       {<<>>} \cup {<<f>> : f \in ImportFiles}
         \cup {<<f, g>> : f \in ImportFiles,
                          g \in {h \in ImportFiles :
                                   h.size = 0 /\ Len(h.name) = 6}} :
    /\ importer' = [running |-> TRUE, files |-> filesArray,
                    events |-> importNotes(filesArray)]
    /\ UNCHANGED <<fs, data, loaded, lastOp, moves, threw, edits, saveRun,
                   started, timer, revisions, idb,
                 walk, assetCall, cascade>>

\* lines 89-104: convertModificationDates.  A date is absent, a number of
\* seconds, or a date string (held as its time in milliseconds, a multiple
\* of 1000); lastModified is dropped, modificationDate is the note's own
\* or else lastModified, a string converted to seconds.
convertModificationDates(notes) ==
  LET Chosen(note) == IF note.modificationDate.kind # "none"
                      THEN note.modificationDate ELSE note.lastModified
      Converted(d) == IF d.kind = "date"
                      THEN [kind |-> "num", v |-> d.ms \div 1000] ELSE d
  IN [i \in 1..Len(notes) |->
        IF Chosen(notes[i]).kind = "none"
        THEN [content |-> notes[i].content]
        ELSE [content |-> notes[i].content,
              modificationDate |-> Converted(Chosen(notes[i]))]]

\* lines 64-86: parseAndImportJson, as the status events it emits, the notes
\* it hands to coreImporter.importNotes and whether it throws.  Line 73
\* reads the length of dataObj.activeNotes and of dataObj.trashedNotes
\* without a test: a TypeError when dataObj is null or lacks either.
parseAndImportJson(jsonContent) ==
  IF jsonContent.kind = "unparsable"
  THEN [events |-> <<[op |-> "emit",
                      arg |-> <<"status", "error", "Invalid JSON file.">>]>>,
        imported |-> <<>>, threw |-> FALSE]
  ELSE IF \/ jsonContent.kind = "null"
          \/ ~jsonContent.activeNotes.present
          \/ ~jsonContent.trashedNotes.present
  THEN [events |-> <<>>, imported |-> <<>>, threw |-> TRUE]
  ELSE [events |-> <<[op |-> "emit",
                      arg |-> <<"status", "complete",
                                Len(jsonContent.activeNotes.items)
                                  + Len(jsonContent.trashedNotes.items)>>]>>,
        imported |-> <<convertModificationDates(jsonContent.activeNotes.items),
                       convertModificationDates(jsonContent.trashedNotes.items)>>,
        threw |-> FALSE]

\* the texts a file can hold: not JSON, null, or an object with or without
\* activeNotes and trashedNotes
JsonTexts ==
  LET Dates == {[kind |-> "none"], [kind |-> "num", v |-> 7],
                [kind |-> "date", ms |-> 9000]}
      ExportedNotes == [content : {"a"}, modificationDate : Dates,
                        lastModified : Dates]
      Lists == {[present |-> FALSE], [present |-> TRUE, items |-> <<>>]}
                 \cup {[present |-> TRUE, items |-> <<n>>] : n \in ExportedNotes}
  IN {[kind |-> "unparsable"], [kind |-> "null"]}
       \cup [kind : {"object"}, activeNotes : Lists, trashedNotes : Lists]

\* the text of a picked file reaches parseAndImportJson
ParseAndImportJson ==
  \E jsonContent \in JsonTexts :
    /\ importer' = [running |-> FALSE, json |-> jsonContent,
                    result |-> parseAndImportJson(jsonContent)]
    /\ UNCHANGED <<fs, data, loaded, lastOp, moves, threw, edits, saveRun,
                   started, timer, revisions, idb,
                 walk, assetCall, cascade>>

NextImport ==
  \/ ImportNotes
  \/ ParseAndImportJson

SpecImport == Init /\ [][NextImport]_vars

\* ------------------------------------------------------------------------
\* The persistence middleware (part_006 lines 410-433)
\* ------------------------------------------------------------------------
\* The 1000 ms of the setTimeout call last QuietTicks ticks of the clock.
\* timer.actions holds the time of each dispatched action, timer.calls the
\* saveState calls made (the number of actions dispatched before the call
\* and its time), timer.pending the timers set and neither fired nor
\* cleared, timer.worker the handle the closure holds (0 for null; the
\* handle of a timer is the number of the action that set it),
\* timer.inFlight the IndexedDB saves whose put has not happened yet and
\* timer.stored the snapshot the backend holds.
QuietTicks == 2
MaxTicks == 5
MaxActions == 3

\* lines 419-421: if (worker) clearTimeout(worker)
clearTimeout_Noop(t) == t

clearTimeout(t) ==
  IF t.worker = 0 THEN t
  ELSE [t EXCEPT !.pending = {w \in @ : w.id # t.worker}]

\* the timer is set only when none was set before
setTimeout_OnlyFirst(t) ==
  IF ~t.keepSyncing \/ t.worker # 0 THEN t
  ELSE [t EXCEPT !.worker = Len(t.actions),
                 !.pending = @ \cup {[id |-> Len(t.actions),
                                      due |-> t.now + QuietTicks]}]

\* lines 422-424: if (keepSyncing) worker = setTimeout(..., 1000)
setTimeout(t) ==
  IF ~t.keepSyncing THEN t
  ELSE [t EXCEPT !.worker = Len(t.actions),
                 !.pending = @ \cup {[id |-> Len(t.actions),
                                      due |-> t.now + QuietTicks]}]

\* lines 354-386 and 230-264: saveStateToSQLite has written the snapshot
\* when it returns; saveStateToIndexedDB returns a promise and the put
\* happens when the database has been opened.  A save that fails (the
\* try block of savePersistentState ends in its catch, openIndexedDB
\* rejects) stores nothing; the failure stays inside the call or its
\* dropped promise.
saveState(t, failed) ==
  IF failed
  THEN [t EXCEPT !.calls = Append(@, [at |-> Len(t.actions), time |-> t.now,
                                      failed |-> TRUE])]
  ELSE IF t.backend = "sqlite"
  THEN [t EXCEPT !.calls = Append(@, [at |-> Len(t.actions), time |-> t.now,
                                      failed |-> FALSE]),
                 !.stored = Len(t.actions)]
  ELSE [t EXCEPT !.calls = Append(@, [at |-> Len(t.actions), time |-> t.now,
                                      failed |-> FALSE]),
                 !.inFlight = Append(@, Len(t.actions))]

\* an action goes through the middleware; the callback of a timer whose
\* time has come runs before anything else
Dispatch ==
  /\ Len(timer.actions) < MaxActions
  /\ timer.now + QuietTicks <= MaxTicks
  /\ \A w \in timer.pending : w.due > timer.now
  /\ timer' = setTimeout(clearTimeout(
                            [timer EXCEPT !.actions = Append(@, timer.now)]))
  /\ UNCHANGED <<fs, data, loaded, lastOp, moves, threw, edits, saveRun,
                 started, revisions, idb, importer,
                 walk, assetCall, cascade>>

\* the callback of a timer: keepSyncing && saveState(getState()); the
\* state is read when the callback runs
Fire ==
  \E w \in {v \in timer.pending : v.due <= timer.now}, failed \in BOOLEAN :
    /\ ~timer.keepSyncing => ~failed
    /\ timer' = IF timer.keepSyncing
                THEN saveState([timer EXCEPT !.pending = @ \ {w}], failed)
                ELSE [timer EXCEPT !.pending = @ \ {w}]
    /\ UNCHANGED <<fs, data, loaded, lastOp, moves, threw, edits, saveRun,
                 started, revisions, idb, importer,
                 walk, assetCall, cascade>>

\* the database is open: the transaction of the oldest pending save runs
CompletePut ==
  /\ timer.inFlight # <<>>
  /\ timer' = [timer EXCEPT !.stored = Head(timer.inFlight),
                            !.inFlight = Tail(@)]
  /\ UNCHANGED <<fs, data, loaded, lastOp, moves, threw, edits, saveRun,
                 started, revisions, idb, importer,
                 walk, assetCall, cascade>>

Tick ==
  /\ timer.now < MaxTicks
  /\ \A w \in timer.pending : w.due > timer.now
  /\ timer' = [timer EXCEPT !.now = @ + 1]
  /\ UNCHANGED <<fs, data, loaded, lastOp, moves, threw, edits, saveRun,
                 started, revisions, idb, importer,
                 walk, assetCall, cascade>>

\* stopSyncing (lines 58-60)
StopSyncing ==
  /\ timer.keepSyncing
  /\ timer' = [timer EXCEPT !.keepSyncing = FALSE]
  /\ UNCHANGED <<fs, data, loaded, lastOp, moves, threw, edits, saveRun,
                 started, revisions, idb, importer,
                 walk, assetCall, cascade>>

InitMiddleware ==
  /\ \E b \in {"sqlite", "indexeddb"} :
       timer = [backend |-> b, keepSyncing |-> TRUE, worker |-> 0,
                pending |-> {}, now |-> 0, actions |-> <<>>, calls |-> <<>>,
                inFlight |-> <<>>, stored |-> 0]
  /\ fs = [dirs |-> Prefixes(DocumentsPath), files |-> <<>>, meta |-> NoMeta]
  /\ data = [notes |-> <<>>, folders |-> InitFolders,
             notebooks |-> InitNotebooks]
  /\ loaded = NoSnapshot
  /\ lastOp = "init"
  /\ moves = <<>>
  /\ threw = FALSE
  /\ edits = 0
  /\ saveRun = 0
  /\ started = [empty |-> TRUE]
  /\ revisions = [file |-> [present |-> FALSE], call |-> <<>>]
  /\ idb = [state |-> NoSnapshot, revisions |-> <<>>]
  /\ importer = [running |-> FALSE]
  /\ walk = [running |-> FALSE]
  /\ assetCall = [running |-> FALSE]
  /\ cascade = [running |-> FALSE]

NextMiddleware ==
  \/ Dispatch
  \/ Fire
  \/ CompletePut
  \/ Tick
  \/ StopSyncing

SpecMiddleware == InitMiddleware /\ [][NextMiddleware]_vars

\* time passes and the event loop runs the callback of a timer that is due
SpecMiddlewareFair ==
  SpecMiddleware /\ WF_vars(Tick) /\ WF_vars(Fire)

\* ------------------------------------------------------------------------
\* buildFolderPath, one iteration of its loop at a time (preload.js 118-139)
\* ------------------------------------------------------------------------
\* iterations after which the model stops following a loop
MaxWalk == 5

\* the loop condition without its seen-set test
WalkContinues_NoSeen(w) ==
  /\ w.cur # Null
  /\ w.cur \in DOMAIN w.folders

\* line 124: while (cur && folders.has(cur) && !seen.has(cur))
WalkContinues(w) ==
  /\ w.cur # Null
  /\ w.cur \in DOMAIN w.folders
  /\ w.cur \notin w.seen

\* lines 125-128: the body of the loop; visited records the folder whose
\* name was put in front of parts
WalkBody(w) ==
  [w EXCEPT !.seen = @ \cup {w.cur},
            !.parts = <<safeName(w.folders[w.cur].name, FolderFallback)>> \o @,
            !.visited = <<w.cur>> \o @,
            !.cur = w.folders[w.cur].parentFolderId,
            !.steps = @ + 1]

\* lines 131-138: the notebook is looked up from the folder folderId names
WalkReturn(w) ==
  LET topFolder == IF w.folderId # Null /\ w.folderId \in DOMAIN w.folders
                   THEN w.folders[w.folderId] ELSE [notebookId |-> Null]
      notebookId == topFolder.notebookId
      notebookName ==
        IF notebookId # Null /\ notebookId \in DOMAIN w.notebooks
        THEN safeName(w.notebooks[notebookId].name, NotebookFallback)
        ELSE safeName(NotebookFallback, NotebookFallback)
  IN [w EXCEPT !.done = TRUE, !.result = <<notebookName>> \o w.parts]

\* folder maps with any parent links (cycles, self-parents, links to a
\* folder that does not exist) and any notebook per folder; the name of f3
\* sanitizes to nothing
WalkFolders ==
  {[f \in FolderIds |->
      [name |-> CASE f = "f1" -> <<"F">> [] f = "f2" -> <<"a">>
                  [] OTHER -> <<".">>,
       parentFolderId |-> p[f], notebookId |-> n[f]]] :
     p \in [FolderIds -> FolderIds \cup {Null, "gone"}],
     n \in [FolderIds -> {"nb1", "nb2", Null}]}

WalkNotebooks ==
  {[nb \in ids |-> [name |-> IF nb = "nb1" THEN <<"N">> ELSE <<"M">>]] :
     ids \in {{"nb1"}, {"nb1", "nb2"}}}

CallBuildFolderPath ==
  /\ ~walk.running
  /\ \E folders \in WalkFolders, notebooks \in WalkNotebooks,
        folderId \in FolderIds \cup {Null, "gone"} :
       walk' = [running |-> TRUE, folders |-> folders,
                notebooks |-> notebooks, folderId |-> folderId,
                cur |-> folderId, seen |-> {}, parts |-> <<>>,
                visited |-> <<>>, steps |-> 0, done |-> FALSE,
                result |-> <<>>]
  /\ UNCHANGED <<fs, data, loaded, lastOp, moves, threw, edits, saveRun,
                 started, timer, revisions, idb, importer, assetCall, cascade>>

WalkStep ==
  /\ walk.running
  /\ ~walk.done
  /\ WalkContinues(walk)
  /\ walk.steps < MaxWalk
  /\ walk' = WalkBody(walk)
  /\ UNCHANGED <<fs, data, loaded, lastOp, moves, threw, edits, saveRun,
                 started, timer, revisions, idb, importer, assetCall, cascade>>

WalkDone ==
  /\ walk.running
  /\ ~walk.done
  /\ ~WalkContinues(walk)
  /\ walk' = WalkReturn(walk)
  /\ UNCHANGED <<fs, data, loaded, lastOp, moves, threw, edits, saveRun,
                 started, timer, revisions, idb, importer, assetCall, cascade>>

NextWalk ==
  \/ CallBuildFolderPath
  \/ WalkStep
  \/ WalkDone

SpecWalk == InitIdle /\ [][NextWalk]_vars

\* ------------------------------------------------------------------------
\* DELETE_FOLDER in the data middleware (src/lib/state/data/middleware.ts)
\* ------------------------------------------------------------------------
\* iterations after which the model stops following the queue loop
MaxCascade == 5

\* Map.forEach visits the folders in insertion order
FolderOrder == <<"f1", "f2", "f3">>

\* lines 30-38: one iteration of while (queue.length)
CascadeBody(c) ==
  LET cur == c.queue[Len(c.queue)]
  IN [c EXCEPT !.toDelete = Append(@, cur),
               !.queue = SubSeq(@, 1, Len(@) - 1)
                           \o SelectSeq(FolderOrder,
                                LAMBDA id : c.folders[id].parentFolderId = cur),
               !.steps = @ + 1]

\* lines 42-85: the dispatches and the forwarded action, in order.  A
\* dispatched DELETE_FOLDER carrying skipCascade passes the middleware
\* again and is forwarded by line 22.
CascadeDispatches(c) ==
  LET inTree(fid) == fid # Null /\ \E k \in 1..Len(c.toDelete) : c.toDelete[k] = fid
      Dispatch1(type, id) == [op |-> "dispatch", type |-> type, id |-> id]
      Forward(id) == [op |-> "next", type |-> "DELETE_FOLDER", id |-> id]
      notesToTrash == SelectSeq(c.notes,
                                LAMBDA n : inTree(n.folderId) /\ ~n.deleted)
      opened == SelectSeq(c.notes, LAMBDA n : n.id = c.openedNote)
      children == SelectSeq(c.toDelete, LAMBDA id : id # c.folderId)
  IN (IF opened # <<>> /\ inTree(opened[1].folderId)
      THEN <<Dispatch1("CLOSE_NOTE", Null)>> ELSE <<>>)
     \o (IF inTree(c.collection)
         THEN <<Dispatch1("SHOW_ALL_NOTES", Null)>> ELSE <<>>)
     \o [i \in 1..Len(notesToTrash) |-> Dispatch1("TRASH_NOTE", notesToTrash[i].id)]
     \o [i \in 1..(2 * Len(children)) |->
           IF i % 2 = 1 THEN Dispatch1("DELETE_FOLDER", children[(i + 1) \div 2])
           ELSE Forward(children[i \div 2])]
     \o <<Forward(c.folderId)>>

\* folder maps with any parent links, cycles and self-parents included
CascadeFolders ==
  {[f \in FolderIds |-> [parentFolderId |-> p[f]]] :
     p \in [FolderIds -> FolderIds \cup {Null}]}

CascadeNotes ==
  {<<[id |-> "n1", folderId |-> f, deleted |-> FALSE],
     [id |-> "n2", folderId |-> g, deleted |-> d]>> :
     f \in FolderIds \cup {Null}, g \in {"f2", "f3"}, d \in BOOLEAN}

\* a DELETE_FOLDER action reaches the middleware (lines 19-28)
DeleteFolder ==
  /\ ~cascade.running
  /\ \E folders \in CascadeFolders, notes \in CascadeNotes,
        openedNote \in {Null, "n1"}, collection \in {Null, "f2"},
        folderId \in FolderIds, skipCascade \in BOOLEAN :
       cascade' = [running |-> TRUE, folders |-> folders, notes |-> notes,
                   openedNote |-> openedNote, collection |-> collection,
                   folderId |-> folderId, skipCascade |-> skipCascade,
                   queue |-> IF skipCascade THEN <<>> ELSE <<folderId>>,
                   toDelete |-> <<>>, steps |-> 0, done |-> skipCascade,
                   log |-> IF skipCascade
                           THEN <<[op |-> "next", type |-> "DELETE_FOLDER",
                                   id |-> folderId]>>
                           ELSE <<>>]
  /\ UNCHANGED <<fs, data, loaded, lastOp, moves, threw, edits, saveRun,
                 started, timer, revisions, idb, importer, walk, assetCall>>

CascadeStep ==
  /\ cascade.running
  /\ ~cascade.done
  /\ cascade.queue # <<>>
  /\ cascade.steps < MaxCascade
  /\ cascade' = CascadeBody(cascade)
  /\ UNCHANGED <<fs, data, loaded, lastOp, moves, threw, edits, saveRun,
                 started, timer, revisions, idb, importer, walk, assetCall>>

CascadeDone ==
  /\ cascade.running
  /\ ~cascade.done
  /\ cascade.queue = <<>>
  /\ cascade' = [cascade EXCEPT !.done = TRUE,
                                !.log = CascadeDispatches(cascade)]
  /\ UNCHANGED <<fs, data, loaded, lastOp, moves, threw, edits, saveRun,
                 started, timer, revisions, idb, importer, walk, assetCall>>

NextCascade ==
  \/ DeleteFolder
  \/ CascadeStep
  \/ CascadeDone

SpecCascade == InitIdle /\ [][NextCascade]_vars

\* ------------------------------------------------------------------------
\* loadState on stores of any age (part_006 lines 12-56 and 273-346)
\* ------------------------------------------------------------------------
\* what store.json can hold: no notebook or one, no folder or one, notes
\* with or without a folder and with or without system tags
StoredStates ==
  LET StoredNotes(fids) ==
        {[id |-> "n1", folderId |-> f, systemTags |-> t] :
           f \in fids \cup {Null}, t \in {<<>>, <<"markdown">>, <<"pinned">>}}
          \cup {[id |-> "n1"], [id |-> "n1", folderId |-> Null]}
      Second(fids) ==
        {[id |-> "n2", folderId |-> f, systemTags |-> <<"pinned">>] :
           f \in fids \cup {Null}}
      Lists(fids) ==
        {<<>>} \cup {<<n>> : n \in StoredNotes(fids)}
          \cup {<<n, m>> : n \in StoredNotes(fids), m \in Second(fids)}
      Stored(nbs, fids) ==
        {[present |-> TRUE, noteTags |-> <<>>, notePaths |-> <<>>,
          notebooks |-> [nb \in nbs |-> [name |-> <<"N">>]],
          folders |-> [f \in fids |->
                         [name |-> <<"F">>, notebookId |-> "nb1",
                          parentFolderId |-> Null]],
          notes |-> ns] : ns \in Lists(fids)}
  IN UNION {Stored(nbs, fids) : nbs \in {{}, {"nb1"}},
                                fids \in {{}, {"f1"}, {"f1", "f3"}}}

\* the application starts on a store written by any earlier version
LoadStored ==
  \E stored \in StoredStates :
    /\ lastOp \in {"init", "migrate"}
    /\ loaded' = stored
    /\ started' = StateFrom(stored, <<>>)
    /\ lastOp' = "migrate"
    /\ UNCHANGED <<fs, data, moves, threw, edits, saveRun, timer, revisions,
                   idb, importer, walk, assetCall, cascade>>

SpecMigrate == InitIdle /\ [][LoadStored]_vars

\* ------------------------------------------------------------------------
\* Vocabulary of the properties
\* ------------------------------------------------------------------------
\* the Store Index on disk
NotePathsOf(d) == IF d.meta.present THEN d.meta.notePaths ELSE <<>>

\* directory and content file recorded for a note (<<>> when not recorded)
IndexDir(d, id) ==
  IF PathField(NotePathsOf(d), id, "dirRel") = <<>> THEN <<>>
  ELSE PathJoin(getNotesRoot, PathField(NotePathsOf(d), id, "dirRel"))

IndexFile(d, id) ==
  IF PathField(NotePathsOf(d), id, "htmlRel") = <<>> THEN <<>>
  ELSE PathJoin(getNotesRoot, PathField(NotePathsOf(d), id, "htmlRel"))

\* the directory derived from the note's current folder ancestry and title
DerivedFolderDir(snapshot, note) ==
  PathJoin(getNotesRoot,
           buildFolderPath(snapshot.folders, snapshot.notebooks, note.folderId))

DerivedTitle(note) == safeName(noteTitleFromContent(note.content), NewNoteName)

DerivedDir(snapshot, note) ==
  Append(DerivedFolderDir(snapshot, note), DerivedTitle(note))

LiveNotes(snapshot) ==
  {snapshot.notes[i] : i \in {j \in 1..Len(snapshot.notes) :
                                ~snapshot.notes[j].deleted}}

\* a step that is one savePersistentState call
IsSaveStep == lastOp' = "save" /\ saveRun' = saveRun + 1

\* the directory the Store Index records for a note is removed behind the
\* application's back (a file manager, a sync client)
VanishDir ==
  \E i \in 1..Len(data.notes) :
    /\ Running
    /\ edits < MaxEdits
    /\ IndexDir(fs, data.notes[i].id) \in fs.dirs
    /\ fs' = rmSync(fs, IndexDir(fs, data.notes[i].id))
    /\ edits' = edits + 1
    /\ lastOp' = "vanish"
    /\ loaded' = NoSnapshot
    /\ moves' = <<>>
    /\ threw' = FALSE
    /\ saveRun' = 0
    /\ UNCHANGED <<data, started, timer, revisions, idb, importer,
                   walk, assetCall, cascade>>

NextVanished ==
  \/ EditNote
  \/ MoveNote
  \/ TrashNote
  \/ RenameFolder
  \/ Save
  \/ VanishDir

SpecVanished == Init /\ [][NextVanished]_vars

\* lines 349-354 of a save the process does not survive: the rename of the
\* recorded directory of note has happened, nothing after it has
RenamedOnly(g, note, prevDir) ==
  IF \/ g.threw
     \/ ~existsSync(g.fs, prevDir)
     \/ prevDir = g.noteDir
     \/ RenameThrows(g.fs, prevDir, ensureUniqueDirPath(g.fs, g.noteDir))
  THEN [renamed |-> FALSE]
  ELSE [renamed |-> TRUE, id |-> note.id, from |-> prevDir,
        to |-> ensureUniqueDirPath(g.fs, g.noteDir),
        fs |-> renameSync(g.fs, prevDir,
                          ensureUniqueDirPath(g.fs, g.noteDir))]

\* savePersistentState up to the rename of the k-th note's directory: the
\* notes before it have been persisted, store.json is as it was
SaveUntilRename(st, snapshot, note, prevDirRel) ==
  IF st.threw \/ note.deleted \/ prevDirRel = <<>> THEN [renamed |-> FALSE]
  ELSE RenamedOnly(getOrCreateNoteDir(st.fs, getNotesRoot, snapshot.folders,
                                      snapshot.notebooks, note),
                   note, PathJoin(getNotesRoot, prevDirRel))

\* the process stops (power loss, kill) inside savePersistentState, after
\* the rename of a note's directory and before store.json is rewritten;
\* moves keeps the rename and what the note's content file held
CrashDuringSave ==
  \E k \in 1..Len(data.notes) :
    LET c == SaveUntilRename(
               PersistNotes([fs |-> ensureDir(fs, getNotesRoot),
                             next |-> NotePathsOf(fs), active |-> {},
                             moves |-> <<>>, threw |-> FALSE],
                            SubSeq(data.notes, 1, k - 1), data,
                            NotePathsOf(fs)),
               data, data.notes[k],
               PathField(NotePathsOf(fs), data.notes[k].id, "dirRel"))
    IN /\ Running
       /\ lastOp = "app"
       /\ IndexFile(fs, data.notes[k].id) \in DOMAIN fs.files
       /\ c.renamed
       /\ fs' = c.fs
       /\ moves' = <<[id |-> c.id, from |-> c.from, to |-> c.to,
                      persisted |-> fs.files[IndexFile(fs, c.id)]]>>
       /\ lastOp' = "crash"
       /\ loaded' = NoSnapshot
       /\ threw' = FALSE
       /\ saveRun' = 0
       /\ UNCHANGED <<data, edits, started, timer, revisions, idb, importer,
                      walk, assetCall, cascade>>

\* the application is started again: the store is filled from what
\* loadPersistentState returns (part_006 lines 273-346)
Restart ==
  /\ lastOp = "crash"
  /\ loaded' = loadPersistentState(fs)
  /\ loaded'.present
  /\ data' = [notes |-> loaded'.notes, folders |-> loaded'.folders,
              notebooks |-> loaded'.notebooks]
  /\ lastOp' = "restart"
  /\ UNCHANGED <<fs, moves, threw, edits, saveRun, started, timer, revisions,
                 idb, importer, walk, assetCall, cascade>>

NextCrash ==
  \/ EditNote
  \/ MoveNote
  \/ RenameFolder
  \/ Save
  \/ CrashDuringSave
  \/ Restart

SpecCrash == Init /\ [][NextCrash]_vars

\* saveNoteAssetFromUrl for a remote URL, up to its first await (lines
\* 504-565): the directory is resolved, recorded and given its assets/,
\* then the call is suspended in fetch with assetsDir in its closure
SuspendedInFetch(r, noteId, res) ==
  IF r.threw \/ MkdirThrows(r.fs, Append(r.noteDir, AssetsName))
  THEN [fs |-> r.fs,
        call |-> [running |-> FALSE, returned |-> TRUE, noteId |-> noteId,
                  rel |-> <<>>, assetsDir |-> <<>>]]
  ELSE [fs |-> ensureDir(r.fs, Append(r.noteDir, AssetsName)),
        call |-> [running |-> TRUE, returned |-> FALSE, noteId |-> noteId,
                  res |-> res, assetsDir |-> Append(r.noteDir, AssetsName)]]

\* an image URL is dropped into the editor; one call is followed
BeginAssetFromUrl ==
  \E i \in 1..Len(data.notes), res \in Responses :
    LET b == SuspendedInFetch(
               ResolveNoteDir(fs, data.notes[i].id, data.notes[i],
                              data.folders, data.notebooks),
               data.notes[i].id, res)
    IN /\ Running
       /\ ~assetCall.running
       /\ "returned" \notin DOMAIN assetCall
       /\ ~data.notes[i].deleted
       /\ fs' = b.fs
       /\ assetCall' = b.call
       /\ lastOp' = "url"
       /\ loaded' = NoSnapshot
       /\ moves' = <<>>
       /\ threw' = FALSE
       /\ saveRun' = 0
       /\ UNCHANGED <<data, edits, started, timer, revisions, idb, importer,
                      walk, cascade>>

\* fetch has settled: lines 566-592 run with the assetsDir resolved before
\* the await
FinishAssetFromUrl ==
  \E now \in 1..MaxClock :
    LET w == FetchAsset(fs, assetCall.assetsDir, assetCall.res, now)
    IN /\ Running
       /\ assetCall.running
       /\ fs' = w.fs
       /\ assetCall' = [running |-> FALSE, returned |-> TRUE,
                        noteId |-> assetCall.noteId, rel |-> w.rel,
                        assetsDir |-> assetCall.assetsDir]
       /\ lastOp' = "urlreturn"
       /\ loaded' = NoSnapshot
       /\ moves' = <<>>
       /\ threw' = FALSE
       /\ saveRun' = 0
       /\ UNCHANGED <<data, edits, started, timer, revisions, idb, importer,
                      walk, cascade>>

NextRace ==
  \/ EditNote
  \/ TrashNote
  \/ Save
  \/ BeginAssetFromUrl
  \/ FinishAssetFromUrl

SpecRace == Init /\ [][NextRace]_vars

\* content files (*.html) directly inside a directory
ContentFilesIn(d, dir) ==
  {f \in DOMAIN d.files :
     /\ Dirname(f) = dir
     /\ Len(Basename(f)) >= Len(HtmlExt)
     /\ SubSeq(Basename(f), Len(Basename(f)) - Len(HtmlExt) + 1,
               Len(Basename(f))) = HtmlExt}

\* C1: a second savePersistentState with the same snapshot performs no
\* directory rename and writes the same Store Index as the first call.
C1_Idempotence ==
  [][(IsSaveStep /\ lastOp = "save")
       => (moves' = <<>> /\ NotePathsOf(fs') = NotePathsOf(fs))]_vars

\* C2: a load that follows a save returns the same note identifiers and,
\* for each note, the content and the folder assignment of the saved
\* snapshot, whatever the deleted flags are.
C2_RoundTrip ==
  lastOp = "saveload" =>
    /\ loaded.present
    /\ Len(loaded.notes) = Len(data.notes)
    /\ \A i \in 1..Len(data.notes) :
         /\ loaded.notes[i].id = data.notes[i].id
         /\ loaded.notes[i].hasContent
         /\ loaded.notes[i].content = data.notes[i].content
         /\ loaded.notes[i].folderId = data.notes[i].folderId

\* C3: after a save, two distinct live notes of the same folder whose titles
\* sanitize to the same name are recorded under two different directories,
\* the base name and a numbered suffix of it, each holding its own content.
C3_SameTitleDistinctDirs ==
  lastOp = "save" =>
    \A m, n \in LiveNotes(data) :
      (/\ m.id # n.id
       /\ m.folderId = n.folderId
       /\ DerivedTitle(m) = DerivedTitle(n))
      => /\ IndexDir(fs, m.id) # <<>>
         /\ IndexDir(fs, n.id) # <<>>
         /\ IndexDir(fs, m.id) # IndexDir(fs, n.id)
         /\ IndexFile(fs, m.id) # IndexFile(fs, n.id)

\* ------------------------------------------------------------------------
\* A store.json edited outside the application: the Store Index entry of
\* note n1 points outside the managed root, either to a sibling directory
\* whose name starts with the root's name ("CurNotes2") or to an unrelated
\* directory ("o").  Both exist and hold a file.
\* ------------------------------------------------------------------------
SiblingDir == Append(DocumentsPath, NOTES_ROOT_NAME \o <<"2">>)
OtherDir == Append(DocumentsPath, <<"o">>)
OutsideFileName == <<"k">>
CraftedRels == {<<DotDot, Basename(SiblingDir)>>, <<DotDot, Basename(OtherDir)>>}

InitCrafted ==
  \E rel \in CraftedRels, del \in BOOLEAN :
    LET n1 == [id |-> "n1", content |-> <<"a">>, hasContent |-> TRUE,
               deleted |-> del, folderId |-> "f1"]
    IN
    /\ fs = [dirs |-> Prefixes(MetaDir) \cup {SiblingDir, OtherDir},
             files |-> [f \in {Append(SiblingDir, OutsideFileName),
                               Append(OtherDir, OutsideFileName)} |-> <<"x">>],
             meta |-> [present |-> TRUE,
                       notes |-> <<StripContent(n1)>>,
                       folders |-> InitFolders,
                       notebooks |-> InitNotebooks,
                       noteTags |-> <<>>,
                       notePaths |->
                         [id \in {"n1"} |->
                            [dirRel |-> rel,
                             htmlRel |-> Append(rel, OutsideFileName)]]]]
    /\ data = [notes |-> <<n1>>, folders |-> InitFolders,
               notebooks |-> InitNotebooks]
    /\ loaded = NoSnapshot
    /\ lastOp = "init"
    /\ moves = <<>>
    /\ threw = FALSE
    /\ edits = 0
    /\ saveRun = 0
    /\ InitRest

SpecCrafted == InitCrafted /\ [][Next]_vars

\* p was renamed by the save just performed (it is, or lies in, a directory
\* that a move took away)
MovedAway(p) == \E i \in 1..Len(moves') : IsUnder(p, moves'[i].from)

\* C4: no savePersistentState removes a directory, or anything inside it,
\* that a Store Index entry names and that is neither the managed root nor
\* a descendant of it.
C4_SandboxSafety ==
  [][IsSaveStep =>
       \A id \in DOMAIN NotePathsOf(fs) :
         LET full == IndexDir(fs, id)
         IN (full # <<>> /\ ~IsUnder(full, getNotesRoot)) =>
              \A p \in fs.dirs \cup DOMAIN fs.files :
                (IsUnder(p, full) /\ ~MovedAway(p)) =>
                  p \in fs'.dirs \cup DOMAIN fs'.files]_vars

\* ------------------------------------------------------------------------
\* Notes of the snapshot being saved, compared with the previous save
\* ------------------------------------------------------------------------
\* the note is recorded in the Store Index and its recorded directory exists
HasSavedDir(d, id) == IndexDir(d, id) # <<>> /\ IndexDir(d, id) \in d.dirs

\* the note's folder kept its identifier but its derived path changed
\* because a folder of its ancestry was renamed since the previous save
FolderRenamed(d, snapshot, note) ==
  /\ d.meta.present
  /\ \E i \in 1..Len(d.meta.notes) :
       /\ d.meta.notes[i].id = note.id
       /\ d.meta.notes[i].folderId = note.folderId
  /\ note.folderId \in DOMAIN d.meta.folders
  /\ note.folderId \in DOMAIN snapshot.folders
  /\ \A f \in DOMAIN snapshot.folders :
       /\ f \in DOMAIN d.meta.folders
       /\ d.meta.folders[f].parentFolderId = snapshot.folders[f].parentFolderId
  /\ Dirname(IndexDir(d, note.id)) = DerivedFolderDir(d.meta, note)
  /\ DerivedFolderDir(d.meta, note) # DerivedFolderDir(snapshot, note)

\* C5: when the folder of a saved note has been renamed, the save leaves
\* the note recorded in a directory located in the path derived from the
\* new folder name, that directory exists, nothing is left at the old
\* location, and the recorded content file holds the note's content.
C5_RenameStability ==
  [][IsSaveStep =>
       \A note \in LiveNotes(data) :
         (HasSavedDir(fs, note.id) /\ FolderRenamed(fs, data, note)) =>
           /\ HasSavedDir(fs', note.id)
           /\ Dirname(IndexDir(fs', note.id)) = DerivedFolderDir(data, note)
           /\ IndexDir(fs, note.id) \notin fs'.dirs
           /\ IndexFile(fs', note.id) \in DOMAIN fs'.files
           /\ Dirname(IndexFile(fs', note.id)) = IndexDir(fs', note.id)
           /\ fs'.files[IndexFile(fs', note.id)] = makeHtml(note.content)]_vars


\* the title of a saved note changed, its folder path did not, and nothing
\* exists at the newly derived path
TitleChanged(d, snapshot, note) ==
  /\ Dirname(IndexDir(d, note.id)) = DerivedFolderDir(snapshot, note)
  /\ Basename(IndexDir(d, note.id)) # DerivedTitle(note)
  /\ ~existsSync(d, DerivedDir(snapshot, note))

\* every file of from/assets is, unchanged, in to/assets
AssetsCarried(d1, from, d2, to) ==
  \A f \in DOMAIN d1.files :
    IsUnder(f, Append(from, AssetsName)) =>
      /\ Rebase(f, from, to) \in DOMAIN d2.files
      /\ d2.files[Rebase(f, from, to)] = d1.files[f]

\* C6: when a saved note's title changed and the derived path is free, the
\* save moves the note directory to exactly the derived path, writes the
\* content file named after the new title there, and carries every file of
\* the old assets/ over unchanged.
C6_TitleChangeMovesToDerived ==
  [][IsSaveStep =>
       \A note \in LiveNotes(data) :
         (HasSavedDir(fs, note.id) /\ TitleChanged(fs, data, note)) =>
           /\ IndexDir(fs', note.id) = DerivedDir(data, note)
           /\ IndexFile(fs', note.id) =
                Append(DerivedDir(data, note), DerivedTitle(note) \o HtmlExt)
           /\ IndexFile(fs', note.id) \in DOMAIN fs'.files
           /\ fs'.files[IndexFile(fs', note.id)] = makeHtml(note.content)
           /\ IndexDir(fs, note.id) \notin fs'.dirs
           /\ AssetsCarried(fs, IndexDir(fs, note.id),
                            fs', DerivedDir(data, note))]_vars

\* the k-th numbered candidate next to a directory
Candidate(dir, k) == Append(Dirname(dir), Suffixed(Basename(dir), k))

\* C7: whenever a save moved a note whose desired destination already
\* existed and was not the note's previous directory, the note directory
\* was renamed to the first free name among "<base> (2)", "<base> (3)", ...,
\* and the existing destination kept its files: none overwritten, none
\* added by the moved note.
C7_CollisionSuffix ==
  \A i \in 1..Len(moves) :
    LET m == moves[i]
    IN (m.destExisted /\ m.from # m.desired) =>
         /\ \E k \in 2..(MaxSuffix - 1) :
              /\ m.to = Candidate(m.desired, k)
              /\ \A j \in 2..(k - 1) : Candidate(m.desired, j) \in m.taken
         /\ m.to \notin m.taken
         /\ m.destKept
         /\ m.destAfter = {x \in m.destBefore : ~IsUnder(x[1], m.from)}

\* a move into a destination that existed and held another note's file
C7_Witness ==
  /\ lastOp = "save"
  /\ \E i \in 1..Len(moves) :
       /\ moves[i].destExisted
       /\ moves[i].from # moves[i].desired
       /\ moves[i].destBefore # {}
       /\ moves[i].srcBefore # {}

\* C8: when a note that has a Store Index entry is marked deleted, the save
\* removes its directory and its entry, and a following load does not
\* return the note.
C8_DeletionCleanup ==
  [][IsSaveStep =>
       \A i \in 1..Len(data.notes) :
         (data.notes[i].deleted /\ IndexDir(fs, data.notes[i].id) # <<>>) =>
           /\ IndexDir(fs, data.notes[i].id) \notin fs'.dirs
           /\ data.notes[i].id \notin DOMAIN NotePathsOf(fs')
           /\ loadPersistentState(fs').present =>
                data.notes[i].id
                  \notin NoteIdsOf(loadPersistentState(fs').notes)]_vars

\* C9: after a save, the Store Index entry of each live note names a
\* directory that exists and holds exactly one content file and assets/.
C9_IndexInvariant ==
  lastOp = "save" =>
    \A note \in LiveNotes(data) :
      IndexDir(fs, note.id) # <<>> =>
        /\ IndexDir(fs, note.id) \in fs.dirs
        /\ Append(IndexDir(fs, note.id), AssetsName) \in fs.dirs
        /\ Cardinality(ContentFilesIn(fs, IndexDir(fs, note.id))) = 1

\* a directory under the managed root, outside the metadata directory,
\* that has the shape of a note directory
IsNoteDir(d, dir) ==
  /\ dir \in d.dirs
  /\ IsUnder(dir, getNotesRoot)
  /\ ~IsUnder(dir, MetaDir)
  /\ (Append(dir, AssetsName) \in d.dirs \/ ContentFilesIn(d, dir) # {})

\* C10: after a save, every note directory under the managed root is the
\* directory the Store Index records for exactly one live note.
C10_NoLeftoverDirs ==
  lastOp = "save" =>
    \A dir \in fs.dirs :
      IsNoteDir(fs, dir) =>
        Cardinality({note \in LiveNotes(data) :
                       IndexDir(fs, note.id) = dir}) = 1

\* the notes the last completed save recorded as deleted
DeletedAtLastSave ==
  IF fs.meta.present
  THEN {fs.meta.notes[i].id : i \in {j \in 1..Len(fs.meta.notes) :
                                       fs.meta.notes[j].deleted}}
  ELSE {}

\* C11: whatever the interleaving of saves and asset calls, a note whose
\* deleted flag was set at the last save has no Store Index entry and no
\* directory on disk.
C11_DeletedNotesAbsent ==
  \A id \in DeletedAtLastSave :
    /\ id \notin DOMAIN NotePathsOf(fs)
    /\ IndexDir(fs, id) \notin fs.dirs

\* C12: when a filesystem operation fails for one note during a save, the
\* cycle continues: store.json is still written with the snapshot's notes
\* and every live note but the failing one has its content file recorded
\* and on disk.
C12_BestEffortPerNote ==
  [][(IsSaveStep /\ threw') =>
       /\ fs'.meta.present
       /\ fs'.meta.notes =
            [i \in 1..Len(data.notes) |-> StripContent(data.notes[i])]
       /\ Cardinality({note \in LiveNotes(data) :
                         IndexFile(fs', note.id) \notin DOMAIN fs'.files})
            <= 1]_vars

\* C13: loadPersistentState never throws.  It returns null when store.json
\* is missing, cannot be parsed, holds no object or makes the load fail,
\* and loadState then starts from the empty state; otherwise it returns
\* the stored snapshot with each note as stored or with its content read
\* from its file.
C13_LoadNeverThrows ==
  lastOp \in {"load", "saveload"} =>
    IF ~fs.meta.present \/ "shape" \in DOMAIN fs.meta
    THEN loaded = NoSnapshot /\ started = [empty |-> TRUE]
    ELSE /\ loaded.present
         /\ "threw" \notin DOMAIN loaded
         /\ [loaded EXCEPT !.notes = fs.meta.notes] = fs.meta
         /\ Len(loaded.notes) = Len(fs.meta.notes)
         /\ \A i \in 1..Len(fs.meta.notes) :
              IF IndexFile(fs, fs.meta.notes[i].id) \in DOMAIN fs.files
              THEN loaded.notes[i] =
                     [fs.meta.notes[i] EXCEPT
                        !.hasContent = TRUE,
                        !.content =
                          turndown(fs.files[IndexFile(fs,
                                                      fs.meta.notes[i].id)])]
              ELSE loaded.notes[i] = fs.meta.notes[i]

\* a load of a store whose notes are not an array of pairs ended in the
\* catch block and the application started empty
C13_Witness ==
  /\ lastOp = "load"
  /\ fs.meta.present
  /\ "shape" \in DOMAIN fs.meta
  /\ loaded = NoSnapshot
  /\ started = [empty |-> TRUE]

\* C14: after a save that did not fail, no directory under the managed root
\* that held something before the save is left empty; the managed root is
\* still there; and every file that disappeared lay inside a note
\* directory of the Store Index.
C14_EmptyDirsPruned ==
  [][(IsSaveStep /\ ~threw') =>
       /\ \A d \in fs.dirs \cap fs'.dirs :
            (IsUnder(d, getNotesRoot) /\ d # getNotesRoot
               /\ Entries(fs, d) # {}) => Entries(fs', d) # {}
       /\ getNotesRoot \in fs.dirs => getNotesRoot \in fs'.dirs
       /\ \A f \in DOMAIN fs.files :
            (\A id \in DOMAIN NotePathsOf(fs) :
               ~IsUnder(f, IndexDir(fs, id))) => f \in DOMAIN fs'.files]_vars

C16_SavesDoNotOverlap == Len(timer.inFlight) <= 1

\* C17: a call of saveNoteAssetFromDataUrl or saveNoteAssetFromUrl leaves
\* every file that was on disk before it, the assets saved earlier among
\* them, with the bytes it had.
C17_AssetsNeverOverwritten ==
  [][lastOp' \in {"paste", "url"} =>
       \A f \in DOMAIN fs.files :
         f \in DOMAIN fs'.files /\ fs'.files[f] = fs.files[f]]_vars

\* C18: saveNoteRevisions(noteId, revisions) makes loadAllRevisions return
\* exactly one pair for noteId, holding revisions, and the pairs of the
\* other notes as they were, one per note; with no revisions.json, or one
\* that cannot be read, loadAllRevisions returns the empty list.
C18_RevisionsKeyedByNote ==
  [][/\ lastOp' = "revisions" =>
          LET before == loadAllRevisions(revisions.file)
              after == loadAllRevisions(revisions'.file)
              Others(pairs) == {pairs[i] : i \in {j \in 1..Len(pairs) :
                                  pairs[j][1] # revisions'.call[1]}}
          IN /\ \E i \in 1..Len(after) :
                   /\ after[i] = revisions'.call
                   /\ \A j \in 1..Len(after) :
                        after[j][1] = after[i][1] => j = i
             /\ Others(after) = Others(before)
             /\ \A i, j \in 1..Len(after) :
                  after[i][1] = after[j][1] => i = j
     /\ lastOp' = "revdamage" => loadAllRevisions(revisions'.file) = <<>>
     /\ ~revisions.file.present => loadAllRevisions(revisions.file) = <<>>
    ]_vars

\* the revisions of a second note were saved and those of the first are
\* still returned
C18_Witness ==
  /\ lastOp = "revisions"
  /\ Len(loadAllRevisions(revisions.file)) = 2
  /\ loadAllRevisions(revisions.file)[2] = revisions.call

\* C19: at any moment a restart gives the same state on both backends: both
\* empty, or the same notes with the same content and the same revisions
\* of each note.
C19_BackendEquivalence ==
  LET a == loadStateFromSQLite(fs, revisions.file)
      b == loadStateFromIndexedDB(idb)
      Plain(notes) == [i \in 1..Len(notes) |->
                         <<notes[i].id, notes[i].content, notes[i].deleted>>]
  IN /\ a.empty = b.empty
     /\ ~a.empty => /\ Plain(a.notes) = Plain(b.notes)
                    /\ a.noteRevisions = b.noteRevisions

C21_MissingActiveNotes ==
  ("json" \in DOMAIN importer /\ importer.json.kind = "object"
     /\ ~importer.json.activeNotes.present) =>
    /\ importer.result.events =
         <<[op |-> "emit",
            arg |-> <<"status", "error", "Invalid Simplenote JSON format.">>]>>
    /\ importer.result.imported = <<>>
    /\ ~importer.result.threw

\* C22: buildFolderPath terminates for every folder map, including one
\* whose parentFolderId links form a cycle or point to a missing folder
\* (its loop runs at most once per folder of the map), and the returned
\* path contains the name of each folder at most once, ordered from the
\* root-most ancestor reached down to the note's assigned folder.
C22_FolderPathTerminates ==
  walk.running =>
    /\ walk.steps <= Cardinality(DOMAIN walk.folders)
    /\ Len(walk.visited) = walk.steps
    /\ \A i, j \in 1..Len(walk.visited) :
         walk.visited[i] = walk.visited[j] => i = j
    /\ walk.done =>
         /\ Len(walk.result) = Len(walk.visited) + 1
         /\ \A i \in 1..Len(walk.visited) :
              walk.result[i + 1] =
                safeName(walk.folders[walk.visited[i]].name, FolderFallback)
         /\ \A i \in 1..(Len(walk.visited) - 1) :
              walk.folders[walk.visited[i + 1]].parentFolderId = walk.visited[i]
         /\ walk.visited # <<>> =>
              walk.visited[Len(walk.visited)] = walk.folderId
         /\ walk.visited = <<>> =>
              (walk.folderId = Null \/ walk.folderId \notin DOMAIN walk.folders)
         /\ walk.result =
              buildFolderPath(walk.folders, walk.notebooks, walk.folderId)

\* the walk from f1 went round the cycle f1 -> f2 -> f3 -> f1 and returned
C22_Witness ==
  /\ walk.running
  /\ walk.done
  /\ walk.folderId = "f1"
  /\ walk.folders["f1"].parentFolderId = "f2"
  /\ walk.folders["f2"].parentFolderId = "f3"
  /\ walk.folders["f3"].parentFolderId = "f1"
  /\ walk.result[3] = <<"a">>
  /\ walk.steps = 3

\* C23: the first segment returned by buildFolderPath is the sanitized name
\* of the notebook that owns the top-most folder of the note's folder chain
\* (the root ancestor reached by the walk), or 'Notebook' when the note has
\* no folder or that folder has no known notebook, also when the folders
\* along the chain carry different notebookId values.
C23_NotebookOfRootAncestor ==
  (walk.running /\ walk.done) =>
    LET owner == IF walk.visited = <<>> THEN Null
                 ELSE walk.folders[walk.visited[1]].notebookId
    IN walk.result[1] =
         IF owner # Null /\ owner \in DOMAIN walk.notebooks
         THEN safeName(walk.notebooks[owner].name, NotebookFallback)
         ELSE NotebookFallback

\* C24: when a note's Store Index entry names a directory that no longer
\* exists on disk, savePersistentState performs no rename for that note,
\* creates the derived directory with its assets/ subdirectory, writes the
\* content file there, and records that directory in the Store Index,
\* exactly as for a note with no prior entry.
C24_VanishedPreviousDir ==
  [][IsSaveStep =>
       \A note \in LiveNotes(data) :
         (IndexDir(fs, note.id) # <<>> /\ IndexDir(fs, note.id) \notin fs.dirs) =>
           /\ \A k \in 1..Len(moves') : moves'[k].id # note.id
           /\ Append(DerivedDir(data, note), AssetsName) \in fs'.dirs
           /\ IsFile(fs', Append(DerivedDir(data, note),
                                 DerivedTitle(note) \o HtmlExt))
           /\ IndexDir(fs', note.id) = DerivedDir(data, note)
           /\ fs' = savePersistentState(
                      [fs EXCEPT !.meta.notePaths = Without(@, note.id)],
                      data).fs]_vars

\* C25: while syncing is enabled, if actions stop being dispatched, then a
\* saveState call eventually runs and it is given the store state as of the
\* last dispatched action; a failure of one save prevents neither later
\* dispatches nor the next scheduled save (the property holds whichever
\* earlier calls failed).
C25_EventualDurability ==
  \A n \in 1..MaxActions :
    (Len(timer.actions) = n)
      ~> \/ Len(timer.actions) # n
         \/ ~timer.keepSyncing
         \/ \E c \in 1..Len(timer.calls) : timer.calls[c].at = n

\* a save failed, a later action was dispatched and its save ran
C25_Witness ==
  \E c, d \in 1..Len(timer.calls) :
    /\ timer.calls[c].failed
    /\ c < d
    /\ timer.calls[d].at > timer.calls[c].at
    /\ timer.calls[d].at = Len(timer.actions)
    /\ ~timer.calls[d].failed
    /\ timer.keepSyncing

\* C26: if the process stops after savePersistentState has renamed a note's
\* directory but before store.json is rewritten, then after restart the
\* sequence loadPersistentState, savePersistentState leaves the note's last
\* persisted content in the content file named by its Store Index entry;
\* the content is not replaced by empty content and no second directory for
\* the note is left behind.
C26_CrashBetweenMoveAndIndex ==
  [][(lastOp = "restart" /\ IsSaveStep) =>
       \A k \in 1..Len(moves) :
         /\ IsFile(fs', IndexFile(fs', moves[k].id))
         /\ fs'.files[IndexFile(fs', moves[k].id)] = moves[k].persisted
         /\ fs'.files[IndexFile(fs', moves[k].id)] # makeHtml(<<>>)
         /\ moves[k].to \in fs'.dirs =>
              IndexDir(fs', moves[k].id) = moves[k].to]_vars

\* C27: if savePersistentState relocates a note's directory while an asset
\* save for the same note is suspended at an await, the asset call either
\* returns null or returns a path whose file lies in the assets/ directory
\* of the note's directory as recorded in the Store Index when the call
\* returns; it never reports success for a file written into a directory
\* that belongs to no note or to another note.
C27_AssetSaveRacingMove ==
  (lastOp = "urlreturn" /\ assetCall.rel # <<>>) =>
    /\ assetCall.assetsDir
         = Append(IndexDir(fs, assetCall.noteId), AssetsName)
    /\ IsFile(fs, PathJoin(IndexDir(fs, assetCall.noteId), assetCall.rel))

\* C28: the DELETE_FOLDER cascade terminates for every folder map in the
\* store, including one whose parentFolderId links form a cycle (its loop
\* runs at most once per folder), and visits each folder of the deleted
\* subtree at most once.
C28_CascadeTerminates ==
  (cascade.running /\ ~cascade.skipCascade) =>
    /\ cascade.steps <= Cardinality(DOMAIN cascade.folders)
    /\ \A i, j \in 1..Len(cascade.toDelete) :
         cascade.toDelete[i] = cascade.toDelete[j] => i = j

RECURSIVE InSubtree(_, _, _, _)
\* folder g is folder f or one of its descendants, following at most k
\* parent links
InSubtree(folders, g, f, k) ==
  \/ g = f
  \/ /\ k > 0
     /\ g \in DOMAIN folders
     /\ folders[g].parentFolderId # Null
     /\ InSubtree(folders, folders[g].parentFolderId, f, k - 1)

\* C29: for a DELETE_FOLDER action without skipCascade on folder F, the
\* middleware dispatches TRASH_NOTE exactly once for every non-deleted note
\* whose folderId is F or a descendant of F, then DELETE_FOLDER with
\* skipCascade exactly once for every proper descendant of F, and only then
\* forwards the delete of F itself; CLOSE_NOTE is dispatched before any
\* TRASH_NOTE when the opened note lies in the subtree, and a DELETE_FOLDER
\* carrying skipCascade is forwarded without any further dispatch.
C29_CascadeOrdering ==
  LET c == cascade
      Sub(g) == g # Null /\ InSubtree(c.folders, g, c.folderId,
                                      Cardinality(DOMAIN c.folders))
      At(op, type, id) ==
        {i \in 1..Len(c.log) :
           c.log[i] = [op |-> op, type |-> type, id |-> id]}
      Trashed == {i \in 1..Len(c.log) : c.log[i].type = "TRASH_NOTE"}
      Deleted == {i \in 1..Len(c.log) :
                    c.log[i].op = "dispatch" /\ c.log[i].type = "DELETE_FOLDER"}
  IN c.running =>
       IF c.skipCascade
       THEN c.done /\ c.log = <<[op |-> "next", type |-> "DELETE_FOLDER",
                                 id |-> c.folderId]>>
       ELSE /\ c.steps <= Cardinality(DOMAIN c.folders)
            /\ c.done =>
                 /\ \A k \in 1..Len(c.notes) :
                      Cardinality(At("dispatch", "TRASH_NOTE", c.notes[k].id))
                        = IF Sub(c.notes[k].folderId) /\ ~c.notes[k].deleted
                          THEN 1 ELSE 0
                 /\ \A g \in DOMAIN c.folders :
                      Cardinality(At("dispatch", "DELETE_FOLDER", g))
                        = IF Sub(g) /\ g # c.folderId THEN 1 ELSE 0
                 /\ \A i \in Trashed, j \in Deleted : i < j
                 /\ At("next", "DELETE_FOLDER", c.folderId) = {Len(c.log)}
                 /\ \A k \in 1..Len(c.notes) :
                      (c.notes[k].id = c.openedNote /\ Sub(c.notes[k].folderId)) =>
                        /\ At("dispatch", "CLOSE_NOTE", Null) # {}
                        /\ \A i \in At("dispatch", "CLOSE_NOTE", Null),
                              j \in Trashed : i < j

\* C30: after loadState has applied migrateNotebooksAndFolders to a loaded
\* state, at least one notebook and one folder exist, every note has the
\* 'markdown' system tag, and every note's folderId is non-null and is the
\* key of a folder present in the loaded folders map, also when the stored
\* state already contained folders.
C30_MigratedState ==
  (lastOp = "migrate" /\ ~started.empty) =>
    /\ DOMAIN started.notebooks # {}
    /\ DOMAIN started.folders # {}
    /\ \A i \in 1..Len(started.notes) :
         /\ \E t \in 1..Len(started.notes[i].systemTags) :
              started.notes[i].systemTags[t] = "markdown"
         /\ started.notes[i].folderId # Null
         /\ started.notes[i].folderId \in DOMAIN started.folders

====
